---- MODULE Spec2Model ----
(***************************************************************************)
(* A model of the tool-calling SQL agent of backend/src/app/agent.py, the  *)
(* tools of backend/src/mcp_tools/db_server.py and the guards of           *)
(* backend/src/app/db.py.                                                  *)
(*                                                                         *)
(* SQL text is modelled by TLA+ strings, read character by character, so   *)
(* the regular expressions and string tests of the code are computed as    *)
(* the code computes them.                                                 *)
(***************************************************************************)
EXTENDS Integers, Sequences, FiniteSets, TLC

VARIABLES
    env,             \* the process: DB_READONLY_STRICT, DB_ALLOWLIST_STRICT, _MCP_AVAILABLE
    fnIn,            \* input of the function under test (pure-function specifications)
    fnOut,           \* its result
    fnPc,            \* "ready" before the call, "done" after it
    mode,            \* "sync" (run_agent) or "stream" (run_agent_stream)
    cl,              \* TRUE iff _select_client_and_model returned a client
    chart_context,   \* the chart context the caller passed to the run
    pc,              \* position of the run
    messages,        \* the message list sent to the model
    tool_calls,      \* tool calls of the current round not executed yet
    tool_traces,     \* run_agent's tool_traces
    prior_queries,   \* the run's prior db_query records
    events,          \* the events run_agent_stream has yielded
    assembled,       \* run_agent_stream's assembled answer
    stream_seen,     \* number of events the token source has delivered
    outcome,         \* what run_agent returned, or NoOutcome
    executor_log,    \* every invocation of the read-only executor app.db.query
    model_calls,     \* the tool calls the model of this run may request
    staged_cache,    \* query_stages of the statements the model may send
    completions,     \* number of completion requests made
    requested,       \* every tool call the model requested, in order
    call_log         \* what happened during each tool call handled so far

vars == <<env, fnIn, fnOut, fnPc, mode, cl, chart_context, model_calls, staged_cache, pc, messages, tool_calls,
          tool_traces, prior_queries, events, assembled, stream_seen, outcome,
          executor_log, completions, requested, call_log>>

fnVars == <<fnIn, fnOut, fnPc>>

runVars == <<mode, cl, chart_context, model_calls, staged_cache, pc, messages, tool_calls, tool_traces,
             prior_queries, events, assembled, stream_seen, outcome,
             executor_log, completions, requested, call_log>>

-----------------------------------------------------------------------------
(* Strings *)

\* s[i-1:i]: the character at position i, "" outside the string
Chr(s, i) == IF i >= 1 /\ i <= Len(s) THEN SubSeq(s, i, i) ELSE ""

LowerStr == "abcdefghijklmnopqrstuvwxyz"

UpperStr == "ABCDEFGHIJKLMNOPQRSTUVWXYZ"

DigitStr == "0123456789"

Chars(s) == {Chr(s, i) : i \in 1..Len(s)}

LowerSet == Chars(LowerStr)

UpperSet == Chars(UpperStr)

DigitSet == Chars(DigitStr)

\* \w of Python's re on ASCII text
WordSet == LowerSet \cup UpperSet \cup DigitSet \cup {"_"}

\* \s of Python's re, and what str.strip() removes
SpaceSet == {" ", "\n", "\t"}

UpperOf == [c \in LowerSet |-> Chr(UpperStr, CHOOSE i \in 1..26 : Chr(LowerStr, i) = c)]

LowerOf == [c \in UpperSet |-> Chr(LowerStr, CHOOSE i \in 1..26 : Chr(UpperStr, i) = c)]

\* The operators below split the text in halves or jump from match to match,
\* so that the depth of a recursion does not grow with the length of the text.

\* the characters lo..hi of s, each lower-case letter in upper case
RECURSIVE upper_range(_, _, _)
upper_range(s, lo, hi) ==
    IF lo > hi THEN ""
    ELSE IF lo = hi THEN (IF Chr(s, lo) \in LowerSet THEN UpperOf[Chr(s, lo)] ELSE Chr(s, lo))
    ELSE upper_range(s, lo, (lo + hi) \div 2) \o upper_range(s, (lo + hi) \div 2 + 1, hi)

upper(s) == upper_range(s, 1, Len(s))

\* the characters lo..hi of s, each upper-case letter in lower case
RECURSIVE lower_range(_, _, _)
lower_range(s, lo, hi) ==
    IF lo > hi THEN ""
    ELSE IF lo = hi THEN (IF Chr(s, lo) \in UpperSet THEN LowerOf[Chr(s, lo)] ELSE Chr(s, lo))
    ELSE lower_range(s, lo, (lo + hi) \div 2) \o lower_range(s, (lo + hi) \div 2 + 1, hi)

lower(s) == lower_range(s, 1, Len(s))

\* the least position in i..Len(s)+1 that holds no character of cs
SkipSet(s, cs, i) ==
    IF i > Len(s) THEN i
    ELSE CHOOSE j \in i..(Len(s) + 1) :
            Chr(s, j) \notin cs /\ \A k \in i..(j - 1) : Chr(s, k) \in cs

\* the greatest position in 0..Len(s) that holds no character of cs (0: none)
LastNotIn(s, cs) ==
    CHOOSE j \in 0..Len(s) :
        (j = 0 \/ Chr(s, j) \notin cs) /\ \A k \in (j + 1)..Len(s) : Chr(s, k) \in cs

lstrip(s) == SubSeq(s, SkipSet(s, SpaceSet, 1), Len(s))

rstrip(s) == SubSeq(s, 1, LastNotIn(s, SpaceSet))

strip(s) == lstrip(rstrip(s))

rstrip_chr(s, c) == SubSeq(s, 1, LastNotIn(s, {c}))

startswith(s, p) == Len(s) >= Len(p) /\ SubSeq(s, 1, Len(p)) = p

\* s[i:i+len(p)] == p
MatchAt(s, p, i) == i >= 1 /\ i + Len(p) - 1 <= Len(s) /\ SubSeq(s, i, i + Len(p) - 1) = p

\* p in s
contains(s, p) == \E i \in 1..(Len(s) + 1) : MatchAt(s, p, i)

\* \b between s[i-1] and s[i] (positions 1..Len(s)+1)
WordBoundary(s, i) ==
    LET before == i > 1 /\ Chr(s, i - 1) \in WordSet
        after  == i <= Len(s) /\ Chr(s, i) \in WordSet
    IN  before # after

\* \bp\b matches s at i
WordAt(s, p, i) == MatchAt(s, p, i) /\ WordBoundary(s, i) /\ WordBoundary(s, i + Len(p))

\* the least element of a non-empty set of positions
Least(S) == CHOOSE x \in S : \A y \in S : x <= y

\* str.replace(old, new) from position i on: every non-overlapping occurrence,
\* left to right
RECURSIVE replace_from(_, _, _, _)
replace_from(s, old, new, i) ==
    LET at == {j \in i..Len(s) : MatchAt(s, old, j)}
    IN  IF at = {} THEN SubSeq(s, i, Len(s))
        ELSE SubSeq(s, i, Least(at) - 1) \o new \o replace_from(s, old, new, Least(at) + Len(old))

replace(s, old, new) == replace_from(s, old, new, 1)

\* the first position >= i that holds no white space (\s*)
SkipWs(s, i) == SkipSet(s, SpaceSet, i)

\* the first position >= i that holds no digit (\d*)
SkipDigits(s, i) == SkipSet(s, DigitSet, i)

\* the first position >= i that holds c, 0 when there is none
FindChr(s, c, i) ==
    LET at == {j \in i..Len(s) : Chr(s, j) = c}
    IN  IF at = {} THEN 0 ELSE Least(at)

\* the literal p (given in upper case) at i, letter case ignored (re.IGNORECASE)
MatchCI(s, p, i) ==
    /\ i >= 1
    /\ i + Len(p) - 1 <= Len(s)
    /\ \A j \in 1..Len(p) :
          \/ Chr(s, i + j - 1) = Chr(p, j)
          \/ Chr(s, i + j - 1) \in LowerSet /\ UpperOf[Chr(s, i + j - 1)] = Chr(p, j)

RECURSIVE Concat(_)
Concat(ss) == IF Len(ss) = 0 THEN "" ELSE Head(ss) \o Concat(Tail(ss))

\* every concatenation of at most n fragments of frags
Texts(frags, n) == {Concat(ss) : ss \in UNION {[1..k -> frags] : k \in 0..n}}

-----------------------------------------------------------------------------
(* app/db.py: enforce_readonly *)

ForbiddenWords ==
    {"INSERT", "UPDATE", "DELETE", "DROP", "ALTER", "CREATE", "GRANT", "REVOKE",
     "TRUNCATE", "VACUUM", "SET", "COPY"}

\* re.search(r"\b(INSERT|...|COPY)\b", su)
HasForbiddenWord(su) ==
    \E w \in ForbiddenWords : \E i \in 1..Len(su) : WordAt(su, w, i)

\* the mutant drops the upper-casing of the statement before the search
enforce_readonly_nocase(sql, strict) ==
    LET s  == strip(sql)
        su == upper(s)
    IN  IF Len(sql) = 0 THEN "ValueError: Query must be a non-empty string"
        ELSE IF HasForbiddenWord(s) THEN "ValueError: Only read-only queries are permitted"
        ELSE IF strict THEN
            IF contains(rstrip_chr(strip(su), ";"), ";")
                THEN "ValueError: Multiple statements are not allowed in strict read-only mode"
            ELSE IF startswith(su, "(") THEN "ok"
            ELSE IF startswith(su, "SELECT") \/ startswith(su, "WITH") THEN "ok"
            ELSE "ValueError: Only SELECT/WITH statements are allowed in strict read-only mode"
        ELSE IF \/ \E p \in {"SELECT", "WITH", "EXPLAIN", "VALUES"} : startswith(su, p)
                \/ startswith(su, "(") THEN "ok"
        ELSE IF contains(su, "SELECT") THEN "ok"
        ELSE "ValueError: Only read-only SELECT/CTE statements are allowed"

\* the mutant has no "SELECT anywhere" branch in relaxed mode
enforce_readonly_prefix_only(sql, strict) ==
    LET s  == strip(sql)
        su == upper(s)
    IN  IF Len(sql) = 0 THEN "ValueError: Query must be a non-empty string"
        ELSE IF HasForbiddenWord(su) THEN "ValueError: Only read-only queries are permitted"
        ELSE IF strict THEN
            IF contains(rstrip_chr(strip(su), ";"), ";")
                THEN "ValueError: Multiple statements are not allowed in strict read-only mode"
            ELSE IF startswith(su, "(") THEN "ok"
            ELSE IF startswith(su, "SELECT") \/ startswith(su, "WITH") THEN "ok"
            ELSE "ValueError: Only SELECT/WITH statements are allowed in strict read-only mode"
        ELSE IF \/ \E p \in {"SELECT", "WITH", "EXPLAIN", "VALUES"} : startswith(su, p)
                \/ startswith(su, "(") THEN "ok"
        ELSE "ValueError: Only read-only SELECT/CTE statements are allowed"

\* "ok" when the function returns, the ValueError it raises otherwise
enforce_readonly(sql, strict) ==
    LET s  == strip(sql)
        su == upper(s)
    IN  IF Len(sql) = 0 THEN "ValueError: Query must be a non-empty string"
        ELSE IF HasForbiddenWord(su) THEN "ValueError: Only read-only queries are permitted"
        ELSE IF strict THEN
            IF contains(rstrip_chr(strip(su), ";"), ";")
                THEN "ValueError: Multiple statements are not allowed in strict read-only mode"
            ELSE IF startswith(su, "(") THEN "ok"
            ELSE IF startswith(su, "SELECT") \/ startswith(su, "WITH") THEN "ok"
            ELSE "ValueError: Only SELECT/WITH statements are allowed in strict read-only mode"
        ELSE IF \/ \E p \in {"SELECT", "WITH", "EXPLAIN", "VALUES"} : startswith(su, p)
                \/ startswith(su, "(") THEN "ok"
        ELSE IF contains(su, "SELECT") THEN "ok"
        ELSE "ValueError: Only read-only SELECT/CTE statements are allowed"

-----------------------------------------------------------------------------
(* mcp_tools/db_server.py: normalize_sql, an ordered list of re.sub rules   *)

FMT_MAP ==
    << <<"%Y", "YYYY">>, <<"%y", "YY">>, <<"%m", "MM">>, <<"%d", "DD">>,
       <<"%H", "HH24">>, <<"%h", "HH12">>, <<"%i", "MI">>, <<"%s", "SS">> >>

RECURSIVE map_datefmt_from(_, _)
map_datefmt_from(out, k) ==
    IF k > Len(FMT_MAP) THEN out
    ELSE map_datefmt_from(replace(out, FMT_MAP[k][1], FMT_MAP[k][2]), k + 1)

map_datefmt(fmt) == map_datefmt_from(fmt, 1)

NoMatch == [ok |-> FALSE, end |-> 0, repl |-> ""]

\* a match that ends at position e and is replaced by r
Hit(e, r) == [ok |-> TRUE, end |-> e, repl |-> r]

IntervalUnits == {"YEAR", "MONTH", "DAY", "HOUR", "MINUTE", "SECOND"}

\* \(\s*([^\)]+)\s*\) with the "(" at p: the position of the ")" and group 1
ParenArg(s, p) ==
    LET close == FindChr(s, ")", p + 1)
        k     == SkipWs(s, p + 1)
    IN  IF Chr(s, p) = "(" /\ close > p + 1
        THEN [ok |-> TRUE, end |-> close,
              arg |-> IF k < close THEN SubSeq(s, k, close - 1)
                      ELSE SubSeq(s, close - 1, close - 1)]
        ELSE [ok |-> FALSE, end |-> 0, arg |-> ""]

\* \bCURDATE\s*\(\s*\)\b
curdate_rule(s, i) ==
    LET p1 == SkipWs(s, i + 7)
        p2 == SkipWs(s, p1 + 1)
    IN  IF /\ WordBoundary(s, i) /\ MatchCI(s, "CURDATE", i)
           /\ Chr(s, p1) = "(" /\ Chr(s, p2) = ")" /\ WordBoundary(s, p2 + 1)
        THEN Hit(p2, "CURRENT_DATE") ELSE NoMatch

\* DATE_SUB / DATE_ADD \s*\(\s*(?P<expr>[^,]+?)\s*,\s*INTERVAL\s+(?P<num>\d+)\s+(?P<unit>...)\s*\)
date_arith_rule(s, i, fname, sign) ==
    LET p  == SkipWs(s, i + Len(fname))
        c  == FindChr(s, ",", p + 1)
        a  == SkipWs(s, c + 1)
        n0 == SkipWs(s, a + 8)
        n1 == SkipDigits(s, n0)
        u0 == SkipWs(s, n1)
        us == {u \in IntervalUnits : MatchCI(s, u, u0)}
        u  == CHOOSE x \in us : TRUE
        z  == SkipWs(s, u0 + Len(u))
    IN  IF /\ MatchCI(s, fname, i) /\ Chr(s, p) = "(" /\ c > p + 1
           /\ MatchCI(s, "INTERVAL", a) /\ Chr(s, a + 8) \in SpaceSet
           /\ n1 > n0 /\ Chr(s, n1) \in SpaceSet
           /\ us # {} /\ Chr(s, z) = ")"
        THEN Hit(z, "(" \o strip(SubSeq(s, p + 1, c - 1)) \o ") " \o sign \o " INTERVAL '"
                    \o SubSeq(s, n0, n1 - 1) \o " " \o lower(u) \o "'")
        ELSE NoMatch

\* UNIX_TIMESTAMP\s*\(\s*\)
unix_timestamp_now_rule(s, i) ==
    LET p1 == SkipWs(s, i + 14)
        p2 == SkipWs(s, p1 + 1)
    IN  IF MatchCI(s, "UNIX_TIMESTAMP", i) /\ Chr(s, p1) = "(" /\ Chr(s, p2) = ")"
        THEN Hit(p2, "EXTRACT(EPOCH FROM now())") ELSE NoMatch

\* fname\s*\(\s*([^\)]+)\s*\) -> before \1 after; wordStart adds the leading \b
call_rule(s, i, fname, wordStart, before, after) ==
    LET m == ParenArg(s, SkipWs(s, i + Len(fname)))
    IN  IF (wordStart => WordBoundary(s, i)) /\ MatchCI(s, fname, i) /\ m.ok
        THEN Hit(m.end, before \o m.arg \o after) ELSE NoMatch

\* \bIFNULL\s*\(
ifnull_rule(s, i) ==
    LET p == SkipWs(s, i + 6)
    IN  IF WordBoundary(s, i) /\ MatchCI(s, "IFNULL", i) /\ Chr(s, p) = "("
        THEN Hit(p, "COALESCE(") ELSE NoMatch

\* \bIF\s*\(\s*([^,]+)\s*,\s*([^,]+)\s*,\s*([^\)]+)\s*\), replaced by _if_to_case
if_to_case_rule(s, i) ==
    LET p     == SkipWs(s, i + 2)
        c1    == FindChr(s, ",", p + 1)
        c2    == FindChr(s, ",", c1 + 1)
        close == FindChr(s, ")", c2 + 1)
    IN  IF /\ WordBoundary(s, i) /\ MatchCI(s, "IF", i) /\ Chr(s, p) = "("
           /\ c1 > p + 1 /\ c2 > c1 + 1 /\ close > c2 + 1
        THEN Hit(close, "CASE WHEN " \o strip(SubSeq(s, p + 1, c1 - 1))
                        \o " THEN " \o strip(SubSeq(s, c1 + 1, c2 - 1))
                        \o " ELSE " \o strip(SubSeq(s, c2 + 1, close - 1)) \o " END")
        ELSE NoMatch

\* DATE_FORMAT / STR_TO_DATE \s*\(\s*([^,]+?)\s*,\s*'([^']+)'\s*\)
date_fmt_rule(s, i, fname, target) ==
    LET p  == SkipWs(s, i + Len(fname))
        c  == FindChr(s, ",", p + 1)
        q  == SkipWs(s, c + 1)
        q2 == FindChr(s, "'", q + 1)
        z  == SkipWs(s, q2 + 1)
    IN  IF /\ MatchCI(s, fname, i) /\ Chr(s, p) = "(" /\ c > p + 1
           /\ Chr(s, q) = "'" /\ q2 > q + 1 /\ Chr(s, z) = ")"
        THEN Hit(z, target \o "(" \o strip(SubSeq(s, p + 1, c - 1)) \o ", '"
                    \o map_datefmt(SubSeq(s, q + 1, q2 - 1)) \o "')")
        ELSE NoMatch

\* the mutant keeps the MySQL order of the two numbers
limit_rule_keep(s, i) ==
    LET a0 == SkipWs(s, i + 5)
        a1 == SkipDigits(s, a0)
        c  == SkipWs(s, a1)
        b0 == SkipWs(s, c + 1)
        b1 == SkipDigits(s, b0)
    IN  IF /\ WordBoundary(s, i) /\ MatchCI(s, "LIMIT", i) /\ Chr(s, i + 5) \in SpaceSet
           /\ a1 > a0 /\ Chr(s, c) = "," /\ b1 > b0
        THEN Hit(b1 - 1, "LIMIT " \o SubSeq(s, a0, a1 - 1) \o " OFFSET " \o SubSeq(s, b0, b1 - 1))
        ELSE NoMatch

\* \bLIMIT\s+(\d+)\s*,\s*(\d+) -> LIMIT \2 OFFSET \1
limit_rule(s, i) ==
    LET a0 == SkipWs(s, i + 5)
        a1 == SkipDigits(s, a0)
        c  == SkipWs(s, a1)
        b0 == SkipWs(s, c + 1)
        b1 == SkipDigits(s, b0)
    IN  IF /\ WordBoundary(s, i) /\ MatchCI(s, "LIMIT", i) /\ Chr(s, i + 5) \in SpaceSet
           /\ a1 > a0 /\ Chr(s, c) = "," /\ b1 > b0
        THEN Hit(b1 - 1, "LIMIT " \o SubSeq(s, b0, b1 - 1) \o " OFFSET " \o SubSeq(s, a0, a1 - 1))
        ELSE NoMatch

\* the rules of normalize_sql after the backtick replacement, in the order applied
NormalizeRules ==
    <<"curdate", "date_sub", "date_add", "unix_timestamp_now", "unix_timestamp",
      "from_unixtime", "ifnull", "if", "date_format", "str_to_date", "year", "month",
      "limit">>

\* the match of a rule's pattern that starts at position i of s
RuleMatch(rule, s, i) ==
    CASE rule = "curdate"            -> curdate_rule(s, i)
      [] rule = "date_sub"           -> date_arith_rule(s, i, "DATE_SUB", "-")
      [] rule = "date_add"           -> date_arith_rule(s, i, "DATE_ADD", "+")
      [] rule = "unix_timestamp_now" -> unix_timestamp_now_rule(s, i)
      [] rule = "unix_timestamp"     ->
            call_rule(s, i, "UNIX_TIMESTAMP", FALSE, "EXTRACT(EPOCH FROM ", ")")
      [] rule = "from_unixtime"      ->
            call_rule(s, i, "FROM_UNIXTIME", FALSE, "to_timestamp(", ")")
      [] rule = "ifnull"             -> ifnull_rule(s, i)
      [] rule = "if"                 -> if_to_case_rule(s, i)
      [] rule = "date_format"        -> date_fmt_rule(s, i, "DATE_FORMAT", "to_char")
      [] rule = "str_to_date"        -> date_fmt_rule(s, i, "STR_TO_DATE", "to_date")
      [] rule = "year"               -> call_rule(s, i, "YEAR", TRUE, "EXTRACT(YEAR FROM ", ")")
      [] rule = "month"              -> call_rule(s, i, "MONTH", TRUE, "EXTRACT(MONTH FROM ", ")")
      [] rule = "limit"              -> limit_rule(s, i)

\* re.sub(pattern, repl, s) from position i on: leftmost matches, not overlapping
RECURSIVE re_sub(_, _, _)
re_sub(rule, s, i) ==
    LET at == {j \in i..Len(s) : RuleMatch(rule, s, j).ok}
        m  == RuleMatch(rule, s, Least(at))
    IN  IF at = {} THEN SubSeq(s, i, Len(s))
        ELSE SubSeq(s, i, Least(at) - 1) \o m.repl \o re_sub(rule, s, m.end + 1)

RECURSIVE apply_rules(_, _)
apply_rules(s, k) ==
    IF k > Len(NormalizeRules) THEN s
    ELSE apply_rules(re_sub(NormalizeRules[k], s, 1), k + 1)

\* A TLA+ string cannot hold the backtick character: "#", which none of the
\* modelled statements uses otherwise, stands for it.
Backtick == "#"

normalize_sql(sql) == apply_rules(replace(sql, Backtick, "\""), 1)

-----------------------------------------------------------------------------
(* Chart contexts: a sequence of tables [name, columns, base_sql], where    *)
(* base_sql = "" stands for a table with no base_sql                        *)

\* re.match(r"^query_result(_\d+)?$", name); $ also matches before one final newline
is_virtual_name(name) ==
    LET n == IF Len(name) > 0 /\ Chr(name, Len(name)) = "\n"
             THEN SubSeq(name, 1, Len(name) - 1) ELSE name
        d == SkipDigits(n, 14)
    IN  \/ n = "query_result"
        \/ startswith(n, "query_result_") /\ d > 14 /\ d = Len(n) + 1

\* the end of the match of \bquery_result(?:_\d+)?\b (re.IGNORECASE) at i, 0 when none
alias_end(s, i) ==
    LET e == i + 11
        d == SkipDigits(s, e + 2)
    IN  IF ~(WordBoundary(s, i) /\ MatchCI(s, "QUERY_RESULT", i)) THEN 0
        ELSE IF Chr(s, e + 1) = "_" /\ d > e + 2 /\ WordBoundary(s, d) THEN d - 1
        ELSE IF WordBoundary(s, e + 1) THEN e
        ELSE 0

\* set(m.group(0) for m in re.finditer(r"\bquery_result(?:_\d+)?\b", s, re.IGNORECASE))
used_virtuals(s) ==
    {SubSeq(s, i, alias_end(s, i)) : i \in {j \in 1..Len(s) : alias_end(s, j) > 0}}

\* the mutant replaces the first alias only
sub_aliases_first(s, target, i) ==
    LET at == {j \in i..Len(s) : alias_end(s, j) > 0}
    IN  IF at = {} THEN SubSeq(s, i, Len(s))
        ELSE SubSeq(s, i, Least(at) - 1) \o target
             \o SubSeq(s, alias_end(s, Least(at)) + 1, Len(s))

\* re.sub(r"\bquery_result(?:_\d+)?\b", target, s, flags=re.IGNORECASE) from i on
RECURSIVE sub_aliases(_, _, _)
sub_aliases(s, target, i) ==
    LET at == {j \in i..Len(s) : alias_end(s, j) > 0}
    IN  IF at = {} THEN SubSeq(s, i, Len(s))
        ELSE SubSeq(s, i, Least(at) - 1) \o target
             \o sub_aliases(s, target, alias_end(s, Least(at)) + 1)

\* the tables of the context that are virtual and have a base_sql, in context order
backed_virtuals(tables) ==
    SelectSeq(tables, LAMBDA t : t.base_sql # "" /\ is_virtual_name(t.name))

\* the names of the tables of the context that are not virtual, in context order
real_tables(tables) ==
    SelectSeq(tables, LAMBDA t : t.name # "" /\ ~is_virtual_name(t.name))

\* ",\n".join(f"{alias} AS ({base})" for alias, base in virtuals)
RECURSIVE cte_prefix(_)
cte_prefix(virtuals) ==
    IF Len(virtuals) = 0 THEN ""
    ELSE Head(virtuals).name \o " AS (" \o Head(virtuals).base_sql \o ")"
         \o (IF Len(virtuals) > 1 THEN ",\n" ELSE "") \o cte_prefix(Tail(virtuals))

inject_virtual_table(sql, tables) ==
    LET s        == strip(sql)
        virtuals == backed_virtuals(tables)
        reals    == real_tables(tables)
    IN  IF Len(virtuals) > 0 THEN
            IF startswith(upper(s), "WITH ")
            THEN "WITH " \o cte_prefix(virtuals) \o ",\n" \o lstrip(SubSeq(s, 6, Len(s)))
            ELSE "WITH " \o cte_prefix(virtuals) \o "\n" \o s
        ELSE IF used_virtuals(s) # {} /\ Len(reals) = 1 THEN sub_aliases(s, reals[1].name, 1)
        ELSE s

-----------------------------------------------------------------------------
(* app/db.py: enforce_allowlist *)

IdentSet == WordSet \cup {".", "\""}

\* the first position >= i that holds no character of [\w\.\"]
SkipIdent(s, i) == SkipSet(s, IdentSet, i)

strip_quotes(name0) ==
    LET name == strip(name0)
    IN  IF startswith(name, "\"") /\ Chr(name, Len(name)) = "\"" THEN SubSeq(name, 2, Len(name) - 1)
        ELSE IF startswith(name, "'") /\ Chr(name, Len(name)) = "'" THEN SubSeq(name, 2, Len(name) - 1)
        ELSE name

\* ident.split(".")[-1]
RECURSIVE last_part(_)
last_part(ident) ==
    LET d == FindChr(ident, ".", 1)
    IN  IF d = 0 THEN ident ELSE last_part(SubSeq(ident, d + 1, Len(ident)))

\* the identifiers captured by \bkw\s+([\w\.\"]+) (re.IGNORECASE) from i on, in order
\* \bkw\s+([\w\.\"]+) matches s at i
ident_match(s, kw, i) ==
    /\ WordBoundary(s, i) /\ MatchCI(s, kw, i)
    /\ SkipWs(s, i + Len(kw)) > i + Len(kw)
    /\ SkipIdent(s, SkipWs(s, i + Len(kw))) > SkipWs(s, i + Len(kw))

RECURSIVE idents_after(_, _, _)
idents_after(s, kw, i) ==
    LET at == {j \in i..Len(s) : ident_match(s, kw, j)}
        a  == SkipWs(s, Least(at) + Len(kw))
        z  == SkipIdent(s, a)
    IN  IF at = {} THEN << >>
        ELSE <<lower(last_part(strip_quotes(SubSeq(s, a, z - 1))))>> \o idents_after(s, kw, z)

\* list(dict.fromkeys(tables)): duplicates dropped, first occurrences kept in order
RECURSIVE dedup(_)
dedup(seq) ==
    IF Len(seq) = 0 THEN << >>
    ELSE LET front == dedup(SubSeq(seq, 1, Len(seq) - 1))
             x     == seq[Len(seq)]
         IN  IF \E k \in 1..Len(front) : front[k] = x THEN front ELSE Append(front, x)

extract_tables(sql_text) ==
    dedup(idents_after(sql_text, "FROM", 1) \o idents_after(sql_text, "JOIN", 1))

\* "ok" when the function returns, the ValueError it raises otherwise
enforce_allowlist(sql, tables, strict) ==
    LET allowed    == {lower(tables[k].name) : k \in {j \in 1..Len(tables) : tables[j].name # ""}}
        sl         == lower(sql)
        referenced == extract_tables(sql)
        bad        == {k \in 1..Len(referenced) : referenced[k] \notin allowed}
    IN  IF Len(tables) = 0 \/ allowed = {} THEN "ok"
        ELSE IF ~strict THEN
            IF ~contains(" " \o sl \o " ", " from ") THEN "ok"
            ELSE IF ~(\E a \in allowed : contains(sl, a))
                THEN "ValueError: Query must reference at least one allowed table from context"
            ELSE "ok"
        ELSE IF Len(referenced) = 0
            THEN "ValueError: A FROM/JOIN referencing allowed tables is required in strict allowlist mode"
        ELSE IF bad # {}
            THEN "ValueError: Referenced table '"
                 \o referenced[CHOOSE k \in bad : \A j \in bad : k <= j]
                 \o "' is not in the allowed context"
        ELSE "ok"

-----------------------------------------------------------------------------
(* Chart contexts as they arrive: the canonical {tables: [...]}, the legacy *)
(* {query_result: {col: type}}, any other value, or nothing; "untyped" is   *)
(* a {tables: [...]} whose column lists hold values that are no strings     *)

TablesCtx(tables) == [shape |-> "tables", tables |-> tables, cols |-> << >>]

LegacyCtx(cols) == [shape |-> "legacy", tables |-> << >>, cols |-> cols]

InvalidCtx == [shape |-> "invalid", tables |-> << >>, cols |-> << >>]

NoCtx == [shape |-> "none", tables |-> << >>, cols |-> << >>]

UntypedCtx == [shape |-> "untyped", tables |-> << >>, cols |-> << >>]

\* isinstance(ctx, dict) and isinstance(ctx.get('tables'), list)
has_tables(ctx) == ctx.shape \in {"tables", "untyped"}

\* _ensure_chart_context
ensure_chart_context(args_ctx, fallback_ctx) ==
    IF has_tables(args_ctx) THEN args_ctx
    ELSE IF args_ctx.shape = "legacy"
    THEN TablesCtx(<<[name |-> "query_result", columns |-> args_ctx.cols, base_sql |-> ""]>>)
    ELSE IF has_tables(fallback_ctx) THEN fallback_ctx
    ELSE TablesCtx(<< >>)

-----------------------------------------------------------------------------
(* The three tools (mcp_tools/db_server.py and their local copies in        *)
(* app/agent.py).  A tool result is a record with a kind; error payloads    *)
(* (the results that carry an "error" key) are of kind "error" and          *)
(* "missing_virtuals".  An exception is the string "Type: message".         *)

\* str(e) of an exception "Type: message"
exc_message(e) == SubSeq(e, FindChr(e, ":", 1) + 2, Len(e))

ErrorResult(msg) == [kind |-> "error", error |-> msg]

IsErrorPayload(r) == r.kind \in {"error", "missing_virtuals"}

MissingHint ==
    "When only a single table is available, avoid referencing query_result_2; use single-table techniques (self-join or conditional aggregation) or request additional context."

\* the stages of the db_query pipeline, in the order of the code
QueryStages ==
    <<"normalize_sql", "inject_virtual_table", "missing_virtual_guard",
      "enforce_readonly", "enforce_allowlist", "query">>

\* what a tool body did: the exception it raised ("" when it returned), its
\* result, the statements it sent to the executor, the stages it entered
Returned(result, execs, n) ==
    [raised |-> "", result |-> result, execs |-> execs, stages |-> SubSeq(QueryStages, 1, n)]

Raised(e, execs, n) ==
    [raised |-> e, result |-> ErrorResult(exc_message(e)), execs |-> execs,
     stages |-> SubSeq(QueryStages, 1, n)]

\* the aliases the statement uses that no backed virtual table of the context defines
missing_virtuals(sqln, tables) ==
    LET virtuals  == backed_virtuals(tables)
        available == {lower(virtuals[k].name) : k \in 1..Len(virtuals)}
        used_norm == {lower(u) : u \in used_virtuals(sqln)}
    IN  used_norm \ available

\* the text stages of db_query: the normalised statement, the injected
\* statement the checks and the executor see, the aliases the guard finds
\* missing, and the verdicts of the two policy checks on the injected statement
stages_of(norm, sqln, virtuals, tables, e) ==
    [normalized_sql |-> norm,
     sqln           |-> sqln,
     aliases        |-> used_virtuals(sqln),
     available      |-> {lower(virtuals[k].name) : k \in 1..Len(virtuals)},
     missing        |-> missing_virtuals(sqln, tables),
     ro             |-> enforce_readonly(sqln, e.ro_strict),
     al             |-> enforce_allowlist(sqln, tables, e.allow_strict)]

injected_stages(norm, tables, e) ==
    stages_of(norm, inject_virtual_table(norm, tables), backed_virtuals(tables), tables, e)

query_stages(sql, tables, e) == injected_stages(normalize_sql(sql), tables, e)

\* The statements and tables of the run specifications
GoodSql == "SELECT ts, close FROM prices LIMIT 5, 10"

DropSql == "DROP TABLE prices"

VirtualSql == "SELECT * FROM query_result_2"

SecretsSql == "SELECT token FROM secrets"

PricesTable == [name |-> "prices", columns |-> <<"ts", "close">>, base_sql |-> ""]

TradesTable == [name |-> "trades", columns |-> <<"ts", "qty">>, base_sql |-> ""]

SecretsTable == [name |-> "secrets", columns |-> <<"token">>, base_sql |-> ""]

BackedVirtual ==
    [name |-> "query_result", columns |-> <<"ts", "close">>,
     base_sql |-> "SELECT ts, close FROM prices"]

LegacyTable == [name |-> "query_result", columns |-> <<"ts", "close">>, base_sql |-> ""]

\* query_stages is a function of its arguments: a run keeps the stages of
\* the statements its model may send (staged_cache), and a call looks them up
staged(sql, tables, e) ==
    IF e = env /\ <<sql, tables>> \in DOMAIN staged_cache
    THEN staged_cache[<<sql, tables>>]
    ELSE query_stages(sql, tables, e)

\* the mutant calls the executor before the checks
run_query_first(st, tables, db) ==
    IF st.missing # {} /\ Len(real_tables(tables)) # 1 THEN
        Returned([kind |-> "missing_virtuals",
                  error |-> "Missing virtual tables in chartContext",
                  missingVirtuals |-> st.missing,
                  availableVirtuals |-> st.available,
                  hint |-> MissingHint, sql |-> st.sqln], <<st.sqln>>, 3)
    ELSE IF db.raises THEN Raised(db.error, <<st.sqln>>, 6)
    ELSE IF st.ro # "ok" THEN Raised(st.ro, <<st.sqln>>, 6)
    ELSE IF st.al # "ok" THEN Raised(st.al, <<st.sqln>>, 6)
    ELSE Returned([kind |-> "rows", rows |-> db.rows], <<st.sqln>>, 6)

\* the mutant has no guard for missing virtual tables
run_query_unguarded(st, tables, db) ==
    IF st.ro # "ok" THEN Raised(st.ro, << >>, 4)
    ELSE IF st.al # "ok" THEN Raised(st.al, << >>, 5)
    ELSE IF db.raises THEN Raised(db.error, <<st.sqln>>, 6)
    ELSE Returned([kind |-> "rows", rows |-> db.rows], <<st.sqln>>, 6)

\* db_query after the text stages st: the guard, the two checks, the executor
run_query(st, tables, db) ==
    IF st.missing # {} /\ Len(real_tables(tables)) # 1 THEN
        Returned([kind |-> "missing_virtuals",
                  error |-> "Missing virtual tables in chartContext",
                  missingVirtuals |-> st.missing,
                  availableVirtuals |-> st.available,
                  hint |-> MissingHint, sql |-> st.sqln], << >>, 3)
    ELSE IF st.ro # "ok" THEN Raised(st.ro, << >>, 4)
    ELSE IF st.al # "ok" THEN Raised(st.al, << >>, 5)
    ELSE IF db.raises THEN Raised(db.error, <<st.sqln>>, 6)
    ELSE Returned([kind |-> "rows", rows |-> db.rows], <<st.sqln>>, 6)

\* db_query of db_server.py and _tool_db_query of agent.py (the same code);
\* db is what the executor app.db.query does if it is called
db_query(sql, tables, e, db) == run_query(staged(sql, tables, e), tables, db)

db_describe(tables) == Returned([kind |-> "tables", tables |-> tables], << >>, 0)

\* Render specs: [mark, encoding, data, layer]; encoding is the ordered map
\* channel -> field as a sequence of [channel, field], field "" when the
\* entry names no field; data is data.name ("" when absent), layer the
\* data.name of each layer

EmptySpec == [mark |-> "", encoding |-> << >>, data |-> "", layer |-> << >>]

\* the mutant compares the column as it is written
check_field_sensitive(f, name, tables) ==
    LET dot    == FindChr(f, ".", 1)
        alias  == SubSeq(f, 1, dot - 1)
        col    == SubSeq(f, dot + 1, Len(f))
        named  == {k \in 1..Len(tables) : tables[k].name # "" /\ tables[k].name = alias}
        tbl    == tables[CHOOSE k \in named : \A j \in named : j <= k]
        union  == UNION {{tables[k].columns[j] : j \in 1..Len(tables[k].columns)}
                          : k \in 1..Len(tables)}
        issue  == <<"Field not in context: " \o f \o " (encoding." \o name \o ")">>
    IN  IF f = "" THEN << >>
        ELSE IF dot > 0 THEN
            IF named = {} \/ col \notin {tbl.columns[j] : j \in 1..Len(tbl.columns)}
            THEN issue ELSE << >>
        ELSE IF f \notin union THEN issue
        ELSE << >>

\* check_field(v, name): the issues it appends
check_field(f, name, tables) ==
    LET dot    == FindChr(f, ".", 1)
        alias  == SubSeq(f, 1, dot - 1)
        col    == SubSeq(f, dot + 1, Len(f))
        named  == {k \in 1..Len(tables) : tables[k].name # "" /\ tables[k].name = alias}
        \* a later table of the same name replaces an earlier one in the dict
        tbl    == tables[CHOOSE k \in named : \A j \in named : j <= k]
        union  == UNION {{lower(tables[k].columns[j]) : j \in 1..Len(tables[k].columns)}
                          : k \in 1..Len(tables)}
        issue  == <<"Field not in context: " \o f \o " (encoding." \o name \o ")">>
    IN  IF f = "" THEN << >>
        ELSE IF dot > 0 THEN
            IF named = {} \/ lower(col) \notin {lower(tbl.columns[j]) : j \in 1..Len(tbl.columns)}
            THEN issue ELSE << >>
        ELSE IF lower(f) \notin union THEN issue
        ELSE << >>

RECURSIVE check_encoding(_, _)
check_encoding(enc, tables) ==
    IF Len(enc) = 0 THEN << >>
    ELSE check_field(Head(enc).field, Head(enc).channel, tables) \o check_encoding(Tail(enc), tables)

CandlestickChannels == <<"x", "open", "high", "low", "close">>

RECURSIVE check_candlestick(_, _, _)
check_candlestick(enc, tables, k) ==
    IF k > Len(CandlestickChannels) THEN << >>
    ELSE LET ch == CandlestickChannels[k]
             at == {j \in 1..Len(enc) : enc[j].channel = ch}
         IN  (IF at = {} THEN <<"Missing encoding." \o ch \o " for candlestick">>
              ELSE check_field(enc[CHOOSE j \in at : TRUE].field, ch, tables))
             \o check_candlestick(enc, tables, k + 1)

plot_render(spec, tables) ==
    LET issues == check_encoding(spec.encoding, tables)
                  \o (IF lower(spec.mark) = "candlestick"
                      THEN check_candlestick(spec.encoding, tables, 1) ELSE << >>)
    IN  Returned([kind |-> "validation",
                  ok |-> Len(issues) = 0,
                  issues |-> issues,
                  allowedColumns |->
                      UNION {{lower(tables[k].columns[j]) : j \in 1..Len(tables[k].columns)}
                              : k \in 1..Len(tables)},
                  allowedAliases |-> {tables[k].name : k \in {j \in 1..Len(tables) : tables[j].name # ""}},
                  referencedFields |->
                      {spec.encoding[k].field : k \in {j \in 1..Len(spec.encoding) : spec.encoding[j].field # ""}}],
                 << >>, 0)

KnownTools == {"db_describe", "db_query", "plot_render"}

\* the body of a tool, on the server (db_server.py) and locally (agent.py)
tool_body(name, args, e, db) ==
    CASE name = "db_describe" -> db_describe(args.chartContext.tables)
      [] name = "db_query"    -> db_query(args.sql, args.chartContext.tables, e, db)
      [] name = "plot_render" -> plot_render(args.spec, args.chartContext.tables)
      [] OTHER                -> Raised("ToolError: Unknown tool: " \o name, << >>, 0)

\* _call_local_tool: every exception of a tool becomes {"error": str(e)};
\* raised keeps the exception that became the payload
call_local_tool(name, args, e, db) ==
    IF name \notin KnownTools
    THEN Returned(ErrorResult("Unknown tool: " \o name), << >>, 0)
    ELSE tool_body(name, args, e, db)

\* the invocations of the executor made on one path
Via(execs, path) == [k \in 1..Len(execs) |-> [sql |-> execs[k], via |-> path]]

\* _to_plain_jsonable: what comes back from the tool server is plain JSON data
to_plain_jsonable(result) ==
    IF result.kind = "rows" THEN [result EXCEPT !.rows.jsonable = TRUE] ELSE result

\* what _call_mcp_tool returns when the tool server was tried (tried), the
\* call went as mcp says, the tool body did srv on the server and loc is what
\* the local call does
deliver(tried, mcp, srv, loc) ==
    IF tried /\ mcp = "ok" /\ srv.raised = ""
    THEN [result |-> to_plain_jsonable(srv.result),
          execs |-> Via(srv.execs, "mcp"), via |-> "mcp", raised |-> "",
          indirection |-> "ok", attempts |-> <<srv.stages>>]
    ELSE [result |-> loc.result,
          execs |-> (IF tried /\ mcp # "fails_before" THEN Via(srv.execs, "mcp") ELSE << >>)
                    \o Via(loc.execs, "local"),
          via |-> "local", raised |-> loc.raised,
          indirection |-> IF tried THEN "failed" ELSE "none",
          attempts |-> (IF tried /\ mcp # "fails_before" THEN <<srv.stages>> ELSE << >>)
                       \o <<loc.stages>>]

\* _call_mcp_tool.  out is what the environment does during the call:
\*   out.mcp  "fails_before" the call fails before the tool body runs,
\*            "fails_after"  the call fails after the tool body ran,
\*            "ok"           the call delivers what the tool body did, its
\*                           exception included;
\*   out.db1  what the executor does when the server's tool body calls it,
\*   out.db2  what it does when the local fallback calls it.
\* The result tells which path produced it (via), the exception the producing
\* tool body raised (raised), whether the tool server failed (indirection),
\* and the stages of each attempt.
call_mcp_tool(name, args, e, out) ==
    deliver(e.mcp_available, out.mcp,
            tool_body(name, args, e, out.db1), call_local_tool(name, args, e, out.db2))

-----------------------------------------------------------------------------
(* The state of a run before run_agent / run_agent_stream is entered; the   *)
(* pure-function specifications leave it alone.                             *)

\* a run that has not returned
NoOutcome == [kind |-> "none"]

RunIdle ==
    /\ mode = "sync"
    /\ cl = FALSE
    /\ chart_context = TablesCtx(<< >>)
    /\ model_calls = {}
    /\ pc = "idle"
    /\ messages = << >>
    /\ tool_calls = << >>
    /\ tool_traces = << >>
    /\ prior_queries = << >>
    /\ events = << >>
    /\ assembled = ""
    /\ stream_seen = 0
    /\ outcome = NoOutcome
    /\ executor_log = << >>
    /\ completions = 0
    /\ requested = << >>
    /\ call_log = << >>

-----------------------------------------------------------------------------
(* SpecRO: enforce_readonly applied to every text of at most MaxFrags       *)
(* fragments of RoFrags, in relaxed and in strict mode                      *)

MaxFrags == 3

RoFrags ==
    {"SELECT 1", "DROP TABLE x", "SELECT", "drop", "Set", "copy", " ", "\n", "x", "_", ";", "(",
     "select", "With", "EXPLAIN", "VALUES"}

InitRO ==
    /\ env \in [ro_strict : BOOLEAN, allow_strict : {FALSE}, mcp_available : {TRUE}]
    /\ fnIn \in [sql : Texts(RoFrags, MaxFrags)]
    /\ fnOut = "none"
    /\ fnPc = "ready"
    /\ staged_cache = << >>
    /\ RunIdle

CallReadonly ==
    /\ fnPc = "ready"
    /\ fnOut' = enforce_readonly(fnIn.sql, env.ro_strict)
    /\ fnPc' = "done"
    /\ UNCHANGED <<env, fnIn, runVars>>

SpecRO == InitRO /\ [][CallReadonly]_vars

\* the statement holds word w at i, in any letter case, with no word
\* character right before it and none right after it
HoldsWholeWord(sql, w) ==
    \E i \in 1..Len(sql) :
        /\ MatchCI(sql, w, i)
        /\ Chr(sql, i - 1) \notin WordSet
        /\ Chr(sql, i + Len(w)) \notin WordSet

\* C2: enforce_readonly rejects, in relaxed and in strict mode alike, every
\* statement that holds one of the twelve forbidden keywords as a whole word
\* in any letter case, wherever it stands; DROP TABLE x is rejected and
\* SELECT 1 is accepted in both modes.
C2_ForbiddenWordsRejected ==
    fnPc = "done" =>
        /\ (\E w \in ForbiddenWords : HoldsWholeWord(fnIn.sql, w)) => fnOut # "ok"
        /\ fnIn.sql = "DROP TABLE x" => fnOut # "ok"
        /\ fnIn.sql = "SELECT 1" => fnOut = "ok"

\* a statement that would be accepted but for a lower-case forbidden word in
\* the middle of it has been rejected
C2_Witness ==
    /\ fnPc = "done"
    /\ fnIn.sql = "SELECT" \o " " \o "drop"
    /\ fnOut = "ValueError: Only read-only queries are permitted"

-----------------------------------------------------------------------------
(* Dataset binding for plot_render (agent.py)                                *)

\* _collect_dataset_names_from_spec
collect_dataset_names_from_spec(spec) ==
    {n \in {spec.data} \cup {spec.layer[k] : k \in 1..Len(spec.layer)} : n # ""}

\* _ALIAS_RE.finditer(sql_text); the aliases of a staged statement are looked up
aliases_in(sql_text) ==
    LET ks == {k \in DOMAIN staged_cache : staged_cache[k].sqln = sql_text}
    IN  IF ks # {} THEN staged_cache[CHOOSE k \in ks : TRUE].aliases
        ELSE used_virtuals(sql_text)

\* the mutant lets an older record replace the binding of a more recent one
bind_record_overwrite(d, q) ==
    LET aliases == aliases_in(q.injected_sql)
        new     == IF aliases = {} THEN {"query_result"} ELSE aliases
    IN  IF q.result.kind # "rows" THEN d
        ELSE [a \in DOMAIN d \cup new |-> IF a \in new THEN q.result.rows ELSE d[a]]

\* one step of the scan of _build_datasets_from_prior_queries: the bindings
\* after the record q, given the bindings d of the more recent records
bind_record(d, q) ==
    LET sql_text == IF q.injected_sql # "" THEN q.injected_sql
                    ELSE IF q.normalized_sql # "" THEN q.normalized_sql ELSE q.sql
        aliases  == aliases_in(sql_text)
        new      == (IF aliases = {} THEN {"query_result"} ELSE aliases) \ DOMAIN d
    IN  IF q.result.kind # "rows" THEN d
        ELSE [a \in DOMAIN d \cup new |-> IF a \in DOMAIN d THEN d[a] ELSE q.result.rows]

RECURSIVE scan_prior_queries(_, _)
scan_prior_queries(prior, k) ==
    IF k > Len(prior) THEN << >>
    ELSE bind_record(scan_prior_queries(prior, k + 1), prior[k])

\* the mutant returns every binding, whatever the spec references
build_datasets_unfiltered(referenced_names, prior) == scan_prior_queries(prior, 1)

\* _build_datasets_from_prior_queries
build_datasets_from_prior_queries(referenced_names, prior) ==
    LET datasets == scan_prior_queries(prior, 1)
        keep     == {n \in referenced_names : n \in DOMAIN datasets}
                    \cup {n \in {"query_result"} :
                            /\ "query_result" \in DOMAIN datasets
                            /\ \E r \in referenced_names \ DOMAIN datasets :
                                  lower(r) = "query_result"}
    IN  IF referenced_names = {} THEN datasets
        ELSE [n \in keep |-> datasets[n]]

-----------------------------------------------------------------------------
(* The orchestrator: run_agent and run_agent_stream (agent.py)               *)

\* the arguments of a tool call as the model wrote them: JSON text that is an
\* object, a JSON value that is no object ("array"), or no JSON at all
ObjectArgs(sql, ctx, spec) == [json |-> "object", sql |-> sql, chartContext |-> ctx, spec |-> spec]

ArrayArgs == [json |-> "array", sql |-> "", chartContext |-> NoCtx, spec |-> EmptySpec]

InvalidArgs == [json |-> "invalid", sql |-> "", chartContext |-> NoCtx, spec |-> EmptySpec]

\* json.loads(args_json), {} when it raises
loads_args(a) == IF a.json = "invalid" THEN ObjectArgs("", NoCtx, EmptySpec) ELSE a

\* the slice size of tool_chunk events
ChunkSize == 2048

\* len(json.dumps(result)), len(str(result)) when json.dumps raises: the
\* size of the rows for a row result, a short text otherwise
result_len(result) == IF result.kind = "rows" THEN result.rows.size ELSE 120

\* the tool_chunk events of one result: result_str[i:i+2048] for i in range(0, len, 2048)
RECURSIVE tool_chunks(_, _, _)
tool_chunks(name, len, i) ==
    IF i >= len THEN << >>
    ELSE <<[type |-> "tool_chunk", tool |-> name,
            delta |-> [from |-> i, to |-> IF i + ChunkSize < len THEN i + ChunkSize ELSE len]]>>
         \o tool_chunks(name, len, i + ChunkSize)

\* the assistant message appended after a db_query that reports missing virtuals
NudgeMessage ==
    [role |-> "assistant",
     content |-> "Detected missing virtual tables. Consider using a single-table approach (e.g., conditional aggregation or self-join) or request additional context."]

ToolMessage(tc, result) ==
    [role |-> "tool", tool_call_id |-> tc.id, name |-> tc.name, content |-> result]

\* the mutant lets the exception escape to the caller
DegradedResult_raised(e) == [kind |-> "raised", text |-> "", error |-> exc_message(e)]

\* the dict run_agent returns from its except clause
DegradedResult(e) ==
    [kind |-> "degraded", text |-> "AI agent encountered an error: " \o exc_message(e),
     error |-> exc_message(e)]

\* how a run leaves the loop on an exception e: run_agent returns the
\* degraded dict, run_agent_stream yields one error event
Fail(e) ==
    /\ pc' = "failed"
    /\ outcome' = IF mode = "sync" THEN DegradedResult(e) ELSE outcome
    /\ events' = IF mode = "stream"
                 THEN Append(events, [type |-> "error", error |-> exc_message(e)])
                 ELSE events

\* Bounds of a run: tool calls the model requests in all, tool calls of one
\* round, tool calls and token-source events together
MaxCalls == 3

MaxRound == 2

MaxSteps == 3

\* the chart contexts callers pass: one real table; two real tables and a
\* backed virtual table; a dict whose column lists hold numbers
CallerContexts ==
    {TablesCtx(<<PricesTable>>), TablesCtx(<<PricesTable, BackedVirtual, TradesTable>>),
     UntypedCtx}

\* user_template(question, chart_ctx): the user message, or the exception
\* of ', '.join(table['columns']) on a column that is no string
user_template(question, chart_ctx) ==
    IF chart_ctx.shape = "untyped"
    THEN [raised |-> "TypeError: sequence item 0: expected str instance, int found",
          content |-> "none"]
    ELSE [raised |-> "", content |-> [question |-> question, chart_ctx |-> chart_ctx]]

LineSpec ==
    [mark |-> "line", encoding |-> <<[channel |-> "x", field |-> "ts"],
                                     [channel |-> "y", field |-> "volume"]>>,
     data |-> "query_result", layer |-> << >>]

\* the tool calls a model may request
DescribeCall == [name |-> "db_describe", arguments |-> ObjectArgs("", NoCtx, EmptySpec)]

QueryCall == [name |-> "db_query", arguments |-> ObjectArgs(GoodSql, NoCtx, EmptySpec)]

DropCall == [name |-> "db_query", arguments |-> ObjectArgs(DropSql, NoCtx, EmptySpec)]

VirtualCall == [name |-> "db_query", arguments |-> ObjectArgs(VirtualSql, NoCtx, EmptySpec)]

SecretsCall ==
    [name |-> "db_query", arguments |-> ObjectArgs(SecretsSql, TablesCtx(<<SecretsTable>>), EmptySpec)]

ArrayCall == [name |-> "db_query", arguments |-> ArrayArgs]

InvalidCall == [name |-> "db_query", arguments |-> InvalidArgs]

RenderCall ==
    [name |-> "plot_render", arguments |-> ObjectArgs("", LegacyCtx(<<"ts", "close">>), LineSpec)]

UnknownCall == [name |-> "web_search", arguments |-> ObjectArgs("", NoCtx, EmptySpec)]

ModelCalls ==
    {DescribeCall, QueryCall, DropCall, VirtualCall, SecretsCall, ArrayCall, InvalidCall,
     RenderCall, UnknownCall}

\* the models of the runs: each requests tool calls of one of these sets
Repertoires ==
    {{DescribeCall, QueryCall, RenderCall},
     {QueryCall, DropCall, UnknownCall},
     {QueryCall, ArrayCall, InvalidCall},
     {SecretsCall, VirtualCall, RenderCall}}

\* what the executor may do when it is called: raise, or return rows that
\* are short or long as JSON text, and rows json.dumps cannot serialise
\* (Decimal, datetime values)
DbRaises ==
    [raises |-> TRUE, error |-> "OperationalError: connection refused",
     rows |-> [size |-> 0, jsonable |-> TRUE]]

DbRows(size, jsonable) ==
    [raises |-> FALSE, error |-> "", rows |-> [size |-> size, jsonable |-> jsonable]]

DbOutcomes == {DbRaises, DbRows(40, TRUE), DbRows(5000, TRUE), DbRows(40, FALSE)}

AllToolOutcomes ==
    [mcp : {"ok", "fails_before", "fails_after"}, db1 : DbOutcomes, db2 : DbOutcomes]

\* the environments of the calls of a run: all is well; the database is
\* down; the tool server fails after its tool body ran, and the rows the
\* local call gets are long and do not serialise
ToolOutcomes ==
    {[mcp |-> "ok", db1 |-> DbRows(40, TRUE), db2 |-> DbRows(40, TRUE)],
     [mcp |-> "ok", db1 |-> DbRaises, db2 |-> DbRaises],
     [mcp |-> "fails_after", db1 |-> DbRows(40, TRUE), db2 |-> DbRows(5000, FALSE)]}

\* the processes of the runs: both checks relaxed or both strict, with and
\* without the tool server
RunEnvs ==
    {e \in [ro_strict : BOOLEAN, allow_strict : BOOLEAN, mcp_available : BOOLEAN] :
        e.ro_strict = e.allow_strict}

Answers == {"", "Prices rose."}

Deltas == {"", "Pri", "ces"}

FakePieces ==
    <<"AI agent is not available.",
      " Please configure your AI providers in the backend ",
      "environment to enable streaming responses.">>

\* the statement and the tables of each db_query call of calls under the
\* caller's context ctx
StagedKeys(calls, ctx) ==
    {<<loads_args(c.arguments).sql,
       ensure_chart_context(loads_args(c.arguments).chartContext, ctx).tables>> :
        c \in {d \in calls : d.name = "db_query"}}

Init ==
    /\ env \in RunEnvs
    /\ chart_context \in CallerContexts
    /\ model_calls \in Repertoires
    /\ staged_cache = [k \in StagedKeys(model_calls, chart_context) |->
                           query_stages(k[1], k[2], env)]
    /\ fnIn = << >>
    /\ fnOut = "none"
    /\ fnPc = "idle"
    /\ mode \in {"sync", "stream"}
    /\ cl \in BOOLEAN
    /\ pc = "start"
    /\ messages = << >>
    /\ tool_calls = << >>
    /\ tool_traces = << >>
    /\ prior_queries = << >>
    /\ events = << >>
    /\ assembled = ""
    /\ stream_seen = 0
    /\ outcome = NoOutcome
    /\ executor_log = << >>
    /\ completions = 0
    /\ requested = << >>
    /\ call_log = << >>

\* the mutant requests a completion although no client is configured
Unconfigured_requests ==
    /\ pc = "start"
    /\ ~cl
    /\ pc' = "awaiting_model"
    /\ completions' = completions + 1
    /\ UNCHANGED <<env, fnVars, mode, cl, chart_context, model_calls, staged_cache, messages, tool_calls, tool_traces,
                   prior_queries, events, assembled, stream_seen, outcome, executor_log, requested, call_log>>

\* no client is configured: run_agent returns the degraded dict,
\* run_agent_stream yields the fake pieces and done
Unconfigured ==
    /\ pc = "start"
    /\ ~cl
    /\ pc' = "done"
    /\ outcome' = IF mode = "sync"
                  THEN [kind |-> "degraded",
                        text |-> "AI agent is not available. Please check your AI provider configuration.",
                        error |-> "AI client not initialized"]
                  ELSE outcome
    /\ assembled' = IF mode = "stream" THEN Concat(FakePieces) ELSE assembled
    /\ events' = IF mode = "stream"
                 THEN [k \in 1..Len(FakePieces) |-> [type |-> "chunk", delta |-> FakePieces[k]]]
                      \o <<[type |-> "done", answer |-> Concat(FakePieces)]>>
                 ELSE events
    /\ UNCHANGED <<env, fnVars, mode, cl, chart_context, model_calls, staged_cache, messages, tool_calls, tool_traces,
                   prior_queries, stream_seen, executor_log, completions, requested, call_log>>

\* the run builds the system and user messages and requests the first
\* completion; user_template is called inside the try of run_agent and
\* before the try of run_agent_stream, whose generator then raises
Begin ==
    /\ pc = "start"
    /\ cl
    /\ \E um \in {user_template("question", chart_context)} :
        IF um.raised = ""
        THEN /\ messages' = <<[role |-> "system", content |-> "SYSTEM_SQL"],
                              [role |-> "user", content |-> um.content]>>
             /\ completions' = completions + 1
             /\ pc' = "awaiting_model"
             /\ UNCHANGED <<events, outcome>>
        ELSE IF mode = "sync"
        THEN /\ Fail(um.raised)
             /\ UNCHANGED <<messages, completions>>
        ELSE /\ pc' = "raised"
             /\ outcome' = [kind |-> "raised", error |-> um.raised]
             /\ UNCHANGED <<messages, completions, events>>
    /\ UNCHANGED <<env, fnVars, mode, cl, chart_context, model_calls, staged_cache, tool_calls, tool_traces, prior_queries,
                   assembled, stream_seen, executor_log, requested, call_log>>

\* the exception of a completion request that fails
UpstreamError == "APIError: upstream unavailable"

\* the completion request raises
CompletionFails ==
    /\ pc = "awaiting_model"
    /\ Fail(UpstreamError)
    /\ UNCHANGED <<env, fnVars, mode, cl, chart_context, model_calls, staged_cache, messages, tool_calls, tool_traces,
                   prior_queries, assembled, stream_seen, executor_log, completions,
                   requested, call_log>>

\* the completion carries tool calls
ModelRequestsTools ==
    /\ pc = "awaiting_model"
    /\ \E n \in 1..MaxRound : \E calls \in [1..n -> model_calls] :
        /\ Len(requested) + n <= MaxCalls
        /\ tool_calls' = [k \in 1..n |-> [id |-> Len(requested) + k, name |-> calls[k].name,
                                          arguments |-> calls[k].arguments]]
        /\ requested' = requested \o tool_calls'
    /\ pc' = "executing_tools"
    /\ UNCHANGED <<env, fnVars, mode, cl, chart_context, model_calls, staged_cache, messages, tool_traces, prior_queries,
                   events, assembled, stream_seen, outcome, executor_log, completions, call_log>>

\* the completion carries no tool call: run_agent returns, run_agent_stream
\* requests the streamed completion
ModelAnswers ==
    /\ pc = "awaiting_model"
    /\ \E content \in Answers :
        IF mode = "sync"
        THEN /\ outcome' = [kind |-> "result",
                            text |-> IF content = "" THEN "No response generated" ELSE content,
                            answer |-> IF content = "" THEN "No response generated" ELSE content,
                            tool_traces |-> tool_traces,
                            usage |-> "usage of the completion",
                            latency_ms |-> "elapsed",
                            request_id |-> "request id of the run"]
             /\ pc' = "done"
             /\ UNCHANGED completions
        ELSE /\ pc' = "streaming"
             /\ completions' = completions + 1
             /\ UNCHANGED outcome
    /\ UNCHANGED <<env, fnVars, mode, cl, chart_context, model_calls, staged_cache, messages, tool_calls, tool_traces,
                   prior_queries, events, assembled, stream_seen, executor_log, requested,
                   call_log>>

\* the mutant puts the trace in front of the list
record_trace_front(traces, t) == <<t>> \o traces

\* tool_traces.append(trace)
record_trace(traces, t) == Append(traces, t)

\* json.dumps(result) succeeds
dumps_ok(result) ==
    CASE result.kind = "rows" -> result.rows.jsonable
      [] result.kind = "validation" /\ "datasets" \in DOMAIN result ->
            \A a \in DOMAIN result.datasets : result.datasets[a].jsonable
      [] OTHER -> TRUE

\* the result of a tool call after the orchestrator's enrichment: rows are
\* those of this call, a plot_render result gets the datasets bound from
\* the prior queries of the run
enrich(tc, args, answer, prior) ==
    LET tagged   == IF answer.kind = "rows"
                    THEN [answer EXCEPT !.rows = [call |-> tc.id, size |-> @.size,
                                                  jsonable |-> @.jsonable]]
                    ELSE answer
        datasets == build_datasets_from_prior_queries(
                        collect_dataset_names_from_spec(args.spec), prior)
    IN  IF tc.name = "plot_render" /\ DOMAIN datasets # {}
        THEN [f \in DOMAIN tagged \cup {"datasets"} |->
                  IF f = "datasets" THEN datasets ELSE tagged[f]]
        ELSE tagged

\* what the environment may do during a call of the tool name: only
\* db_query reaches the executor
OutcomesOf(name) ==
    IF name = "db_query" THEN ToolOutcomes
    ELSE {[mcp |-> m, db1 |-> DbRaises, db2 |-> DbRaises] : m \in {o.mcp : o \in ToolOutcomes}}

\* the tool-role message is appended, and the round goes on or the next
\* completion is requested
Feed(tc, msgs) ==
    /\ messages' = messages \o msgs
    /\ tool_calls' = Tail(tool_calls)
    /\ pc' = IF Len(tool_calls) = 1 THEN "awaiting_model" ELSE pc
    /\ completions' = IF Len(tool_calls) = 1 THEN completions + 1 ELSE completions

\* the handling of the next tool call of the round, from the decoding of its
\* arguments to the tool-role message
ExecTool ==
    /\ pc = "executing_tools"
    /\ \E tc \in {Head(tool_calls)} : \E raw \in {loads_args(tc.arguments)} :
        IF tc.name \in KnownTools /\ raw.json # "object"
        THEN \* args.get raises on a value that is no dict
            /\ Fail("AttributeError: 'list' object has no attribute 'get'")
            /\ call_log' = Append(call_log,
                    [id |-> tc.id, name |-> tc.name, indirection |-> "none", via |-> "none",
                     raised |-> "AttributeError: 'list' object has no attribute 'get'",
                     attempts |-> << >>, chartContext |-> NoCtx, result |-> "none"])
            /\ UNCHANGED <<messages, tool_calls, tool_traces, prior_queries, executor_log,
                           completions>>
        ELSE
            \E out \in OutcomesOf(tc.name) :
            \E args \in {IF tc.name \in KnownTools
                         THEN [raw EXCEPT !.chartContext =
                                   ensure_chart_context(raw.chartContext, chart_context)]
                         ELSE raw} :
            \E st \in {IF tc.name = "db_query"
                       THEN staged(args.sql, args.chartContext.tables, env)
                       ELSE [normalized_sql |-> "", sqln |-> ""]} :
            \E r \in {call_mcp_tool(tc.name, args, env, out)} :
            \E result \in {enrich(tc, args, r.result, prior_queries)} :
                /\ call_log' = Append(call_log,
                        [id |-> tc.id, name |-> tc.name, indirection |-> r.indirection, via |-> r.via,
                         raised |-> r.raised, attempts |-> r.attempts,
                         chartContext |-> args.chartContext, result |-> result])
                /\ executor_log' = executor_log
                        \o [k \in 1..Len(r.execs) |->
                               [call |-> tc.id, sql |-> r.execs[k].sql, via |-> r.execs[k].via]]
                /\ prior_queries' =
                        IF tc.name = "db_query"
                        THEN Append(prior_queries,
                                    [sql |-> args.sql, normalized_sql |-> st.normalized_sql,
                                     injected_sql |-> st.sqln, result |-> result])
                        ELSE prior_queries
                /\ IF mode = "sync"
                   THEN /\ tool_traces' = record_trace(tool_traces,
                                [tool |-> tc.name, arguments |-> args, result_preview |-> result,
                                 normalized_sql |-> st.normalized_sql, injected_sql |-> st.sqln])
                        /\ IF dumps_ok(result)
                           THEN /\ Feed(tc, <<ToolMessage(tc, result)>>
                                            \o (IF tc.name = "db_query" /\ result.kind = "missing_virtuals"
                                                THEN <<NudgeMessage>> ELSE << >>))
                                /\ UNCHANGED <<outcome, events>>
                           ELSE \* json.dumps raises on the content of the message
                                /\ Fail("TypeError: Object of type Decimal is not JSON serializable")
                                /\ UNCHANGED <<messages, tool_calls, completions>>
                   ELSE /\ events' = events
                            \o <<[type |-> "tool_call_started", tool |-> tc.name, arguments |-> args]>>
                            \o tool_chunks(tc.name, result_len(result), 0)
                            \o <<[type |-> "tool_result", tool |-> tc.name, result |-> result]>>
                        /\ Feed(tc, <<ToolMessage(tc, result)>>)
                        /\ UNCHANGED <<outcome, tool_traces>>
    /\ UNCHANGED <<env, fnVars, mode, cl, chart_context, model_calls, staged_cache, assembled, stream_seen, requested>>

\* the mutant puts the delta in front of what is assembled
assemble_front(acc, delta) == delta \o acc

\* assembled += delta
assemble(acc, delta) == acc \o delta

\* the token source delivers an event: one without text is skipped, a
\* delta is assembled and yielded as a chunk
StreamDelta ==
    /\ pc = "streaming"
    /\ Len(requested) + stream_seen < MaxSteps
    /\ stream_seen' = stream_seen + 1
    /\ \E delta \in Deltas :
        IF delta = ""
        THEN UNCHANGED <<assembled, events>>
        ELSE /\ assembled' = assemble(assembled, delta)
             /\ events' = Append(events, [type |-> "chunk", delta |-> delta])
    /\ UNCHANGED <<env, fnVars, mode, cl, chart_context, model_calls, staged_cache, pc, messages, tool_calls, tool_traces,
                   prior_queries, outcome, executor_log, completions, requested, call_log>>

\* the streamed completion raises: one error event, then the stream closes
StreamFails ==
    /\ pc = "streaming"
    /\ Fail("APIError: stream interrupted")
    /\ UNCHANGED <<env, fnVars, mode, cl, chart_context, model_calls, staged_cache, messages, tool_calls, tool_traces,
                   prior_queries, assembled, stream_seen, executor_log, completions,
                   requested, call_log>>

\* the token source is exhausted: done carries the assembled answer
StreamEnds ==
    /\ pc = "streaming"
    /\ events' = Append(events, [type |-> "done", answer |-> assembled])
    /\ pc' = "done"
    /\ UNCHANGED <<env, fnVars, mode, cl, chart_context, model_calls, staged_cache, messages, tool_calls, tool_traces,
                   prior_queries, assembled, stream_seen, outcome, executor_log, completions,
                   requested, call_log>>

Next ==
    \/ Unconfigured
    \/ Begin
    \/ CompletionFails
    \/ ModelRequestsTools
    \/ ModelAnswers
    \/ ExecTool
    \/ StreamDelta
    \/ StreamFails
    \/ StreamEnds

Spec == Init /\ [][Next]_vars

-----------------------------------------------------------------------------
(* Properties of the runs of Spec                                           *)

\* the run is over: the function returned, the generator closed or raised
RunOver == pc \in {"done", "failed", "raised"}

\* the positions of the events of the types ts in the stream
EventsOf(ts) == {k \in 1..Len(events) : events[k].type \in ts}

ToolEventTypes == {"tool_call_started", "tool_chunk", "tool_result"}

\* the execution of the logged call c raised: a policy check or the executor
\* on the path that answered, the unknown tool name, or the indirection
RaisedInTool(c) ==
    /\ c.via # "none"
    /\ (c.raised # "" \/ c.indirection = "failed" \/ c.name \notin KnownTools)

\* C3: the table allowlist and the backing base_sql definitions applied to
\* a db_query tool call are those of the chart context the caller passed to
\* the run: no chartContext argument written by the model adds a table or
\* changes a backing query.
C3_CallerContextApplied ==
    \A k \in 1..Len(call_log) :
        call_log[k].name = "db_query" /\ call_log[k].via # "none" =>
            call_log[k].chartContext = chart_context

\* C4: when the execution of a tool call raises (policy violation, database
\* error, unknown tool name, failure of the tool-server indirection), the
\* run is not terminated: the failure is appended as an error payload in
\* that call's tool-role message, the remaining calls of the round are
\* executed and the next completion is requested.
C4_ToolFailureFedBack ==
    \A k \in 1..Len(call_log) :
        RaisedInTool(call_log[k]) =>
            /\ \E m \in 1..Len(messages) :
                  /\ messages[m].role = "tool"
                  /\ messages[m].tool_call_id = call_log[k].id
                  /\ IsErrorPayload(messages[m].content)
            /\ pc = "failed" => tool_calls = << >>
            /\ tool_calls = << >> => completions > 1

\* C5: every event sequence of run_agent_stream ends with exactly one
\* terminal event, done or error: at most one error is emitted, done and
\* error never both occur, and no event follows the terminal event.
C5_OneTerminalEvent ==
    mode = "stream" =>
        /\ Cardinality(EventsOf({"error"})) <= 1
        /\ Cardinality(EventsOf({"done", "error"})) <= 1
        /\ EventsOf({"done", "error"}) \subseteq {Len(events)}
        /\ RunOver => EventsOf({"done", "error"}) = {Len(events)} /\ Len(events) > 0

\* the concatenation of the deltas of the chunk events of evs, in order
RECURSIVE chunk_text(_)
chunk_text(evs) ==
    IF evs = << >> THEN ""
    ELSE (IF Head(evs).type = "chunk" THEN Head(evs).delta ELSE "") \o chunk_text(Tail(evs))

\* C6: in every stream that ends with done, the concatenation of the delta
\* fields of all chunk events, in emission order, equals the answer field
\* of the done event, also in the stream emitted when no client is
\* configured.
C6_ChunksMakeAnswer ==
    mode = "stream" /\ EventsOf({"done"}) # {} =>
        chunk_text(events) = events[Len(events)].answer

\* after a tool call, the token source delivered Pri and ces, and done
\* carries Prices
C6_Witness ==
    /\ mode = "stream"
    /\ cl
    /\ pc = "done"
    /\ Len(call_log) = 1
    /\ Cardinality(EventsOf({"chunk"})) = 2
    /\ events[Len(events) - 2].delta = "Pri"
    /\ events[Len(events) - 1].delta = "ces"
    /\ events[Len(events)] = [type |-> "done", answer |-> "Prices"]

\* the k-th smallest element of the set of positions ps
RECURSIVE Nth(_, _)
Nth(ps, k) == IF k = 1 THEN Least(ps) ELSE Nth(ps \ {Least(ps)}, k - 1)

\* C7: in a finished stream, each tool call surfaces as one
\* tool_call_started, then its tool_chunk events, then one tool_result, all
\* before the tool_call_started of the next call and in call order; the
\* numbers of tool_call_started and of tool_result events both equal the
\* number of tool calls the model requested; no text chunk comes before the
\* last tool event.
C7_ToolEventsInCallOrder ==
    mode = "stream" /\ RunOver =>
        LET started == EventsOf({"tool_call_started"})
            results == EventsOf({"tool_result"})
        IN  /\ Cardinality(started) = Len(requested)
            /\ Cardinality(results) = Len(requested)
            /\ \A k \in 1..Len(requested) :
                  k <= Cardinality(started) /\ k <= Cardinality(results) =>
                    /\ events[Nth(started, k)].tool = requested[k].name
                    /\ events[Nth(results, k)].tool = requested[k].name
                    /\ Nth(started, k) < Nth(results, k)
                    /\ \A j \in (Nth(started, k) + 1)..(Nth(results, k) - 1) :
                          /\ events[j].type = "tool_chunk"
                          /\ events[j].tool = requested[k].name
            /\ \A t \in EventsOf(ToolEventTypes) : \A c \in EventsOf({"chunk"}) : t < c

\* C8: the tool_traces list a synchronous run returns holds exactly one
\* entry per tool call the model requested during the run, in execution
\* order: round by round, and within a round in the order the model
\* listed the calls.
C8_TracePerCallInOrder ==
    mode = "sync" /\ cl /\ pc = "done" =>
        /\ outcome.kind = "result"
        /\ Len(outcome.tool_traces) = Len(requested)
        /\ Len(call_log) = Len(requested)
        /\ \A k \in 1..Len(requested) :
              /\ call_log[k].id = requested[k].id
              /\ outcome.tool_traces[k].tool = requested[k].name
              /\ outcome.tool_traces[k].result_preview = call_log[k].result

\* three rounds requested db_describe, db_query and plot_render, and the
\* run returned their traces in this order
C8_Witness ==
    /\ mode = "sync"
    /\ pc = "done"
    /\ completions = 4
    /\ outcome.kind = "result"
    /\ [k \in 1..Len(outcome.tool_traces) |-> outcome.tool_traces[k].tool]
          = <<"db_describe", "db_query", "plot_render">>

\* C9 as the specification words it: when a completion request of the
\* synchronous run fails, the failure is raised to the caller.
C9_FailureRaised ==
    mode = "sync" /\ pc = "failed" /\ outcome.error = exc_message(UpstreamError) =>
        outcome.kind = "raised"

\* C9: when a completion request of the synchronous run fails, the run ends
\* with no further completion request and no further tool call, and the
\* failure is returned to the caller as the degraded dict that carries the
\* text of the exception; nothing is raised.
C9_FailureReturnedDegraded ==
    [][/\ (CompletionFails /\ mode = "sync") =>
            /\ pc' = "failed"
            /\ outcome'.kind = "degraded"
            /\ outcome'.error = "upstream unavailable"
            /\ outcome'.text = "AI agent encountered an error: upstream unavailable"
            /\ UNCHANGED <<completions, call_log, executor_log, messages, tool_traces>>
       /\ pc = "failed" => UNCHANGED vars]_vars

\* the completion request after a round of tool calls failed, and the
\* synchronous run returned the degraded dict
C9_Witness ==
    /\ mode = "sync"
    /\ pc = "failed"
    /\ Len(call_log) = 2
    /\ completions = 2
    /\ outcome = [kind |-> "degraded", text |-> "AI agent encountered an error: upstream unavailable",
                  error |-> "upstream unavailable"]

\* C10: when no client is configured, run_agent returns a degraded textual
\* result and run_agent_stream emits only chunk events followed by done; no
\* completion is requested, no tool is executed, no error event is emitted
\* and nothing is raised.
C10_UnconfiguredDegrades ==
    ~cl =>
        /\ completions = 0
        /\ call_log = << >>
        /\ executor_log = << >>
        /\ requested = << >>
        /\ EventsOf({"error"}) = {}
        /\ pc \in {"start", "done"}
        /\ pc = "done" /\ mode = "sync" =>
              /\ outcome.kind = "degraded"
              /\ outcome.text = "AI agent is not available. Please check your AI provider configuration."
              /\ events = << >>
        /\ pc = "done" /\ mode = "stream" =>
              /\ outcome = NoOutcome
              /\ EventsOf({"done"}) = {Len(events)}
              /\ EventsOf({"chunk"}) = 1..(Len(events) - 1)
              /\ Len(events) = Len(FakePieces) + 1

\* without a client, and with a context that makes user_template raise,
\* the stream is the three pieces and done
C10_Witness ==
    /\ ~cl
    /\ mode = "stream"
    /\ chart_context = UntypedCtx
    /\ pc = "done"
    /\ Len(events) = 4
    /\ events[4].type = "done"

\* the fields the interface of run_agent promises
ResultFields == {"text", "tool_traces", "usage", "latency_ms", "request_id"}

\* C11: every value run_agent returns, on every path (normal completion,
\* unconfigured client, failure after some tool calls were executed), carries
\* the fields text, tool_traces, usage, latency_ms and request_id, and its
\* tool_traces are the tool calls executed so far in the run.
C11_ResultCarriesFields ==
    mode = "sync" /\ pc \in {"done", "failed"} =>
        /\ ResultFields \subseteq DOMAIN outcome
        /\ outcome.tool_traces = tool_traces

\* C11 on the one path where it holds: the value returned after a
\* completion without tool calls carries the five fields and the traces of
\* the run
C11_NormalResultCarriesFields ==
    mode = "sync" /\ pc = "done" /\ cl =>
        /\ ResultFields \subseteq DOMAIN outcome
        /\ outcome.tool_traces = tool_traces

\* the statement, leading whitespace aside, starts with w in any letter case
StartsWithCI(sql, w) == MatchCI(sql, w, SkipSet(sql, SpaceSet, 1))

\* every semicolon of the statement stands in the run of semicolons that
\* ends the statement, trailing whitespace aside
OnlyTrailingSemicolons(sql) ==
    \A i \in 1..Len(sql) :
        Chr(sql, i) = ";" => \A j \in i..LastNotIn(sql, SpaceSet) : Chr(sql, j) = ";"

\* what C13 says enforce_readonly accepts
ReadonlyAccepts(sql, strict) ==
    IF strict
    THEN /\ OnlyTrailingSemicolons(sql)
         /\ \E w \in {"SELECT", "WITH", "("} : StartsWithCI(sql, w)
    ELSE \/ \E w \in {"SELECT", "WITH", "EXPLAIN", "VALUES", "("} : StartsWithCI(sql, w)
         \/ \E i \in 1..Len(sql) : MatchCI(sql, "SELECT", i)

\* C13: of the statements that hold no forbidden keyword, enforce_readonly
\* accepts in relaxed mode exactly those that start with SELECT, WITH,
\* EXPLAIN, VALUES or "(" or hold SELECT anywhere, and in strict mode exactly
\* those that have no semicolon other than trailing ones and start with
\* SELECT, WITH or "("; SELECT 1; SELECT 2 is rejected in strict mode.
C13_ReadonlyAcceptsExactly ==
    fnPc = "done" /\ ~(\E w \in ForbiddenWords : HoldsWholeWord(fnIn.sql, w)) =>
        /\ fnOut = "ok" <=> ReadonlyAccepts(fnIn.sql, env.ro_strict)
        /\ env.ro_strict /\ fnIn.sql = "SELECT 1" \o ";" \o "SELECT 1" => fnOut # "ok"

\* strict mode rejected two statements in one text, which relaxed mode accepts
C13_Witness ==
    /\ fnPc = "done"
    /\ env.ro_strict
    /\ fnIn.sql = "SELECT 1" \o ";" \o "SELECT 1"
    /\ fnOut = "ValueError: Multiple statements are not allowed in strict read-only mode"

-----------------------------------------------------------------------------
(* SpecTool: one db_query tool call through _call_mcp_tool, for every       *)
(* statement of ToolSqls under every context of ToolContexts, in every      *)
(* process environment and whatever the tool server and the executor do     *)

ToolSqls ==
    {GoodSql, DropSql, VirtualSql, SecretsSql, "",
     "select p.ts from Prices p join trades t on p.ts = t.ts",
     "SELECT 1; SELECT 2",
     "EXPLAIN SELECT * FROM query_result",
     "SELECT * FROM Query_Result q",
     "SELECT * FROM query_result q JOIN query_result_2 r ON q.ts = r.ts"}

ToolContexts ==
    {<< >>, <<PricesTable>>, <<PricesTable, TradesTable>>,
     <<PricesTable, BackedVirtual, TradesTable>>, <<LegacyTable>>,
     <<BackedVirtual>>, <<PricesTable, BackedVirtual>>}

ToolEnvs == [ro_strict : BOOLEAN, allow_strict : BOOLEAN, mcp_available : BOOLEAN]

InitTool ==
    /\ env \in ToolEnvs
    /\ \E sql \in ToolSqls : \E tables \in ToolContexts :
        /\ staged_cache = [k \in {<<sql, tables>>} |-> query_stages(sql, tables, env)]
        /\ fnIn \in [name : {"db_query"}, sql : {sql}, tables : {tables},
                      out : AllToolOutcomes]
    /\ fnOut = "none"
    /\ fnPc = "ready"
    /\ RunIdle

CallTool ==
    /\ fnPc = "ready"
    /\ fnOut' = call_mcp_tool(fnIn.name,
                              ObjectArgs(fnIn.sql, TablesCtx(fnIn.tables), EmptySpec),
                              env, fnIn.out)
    /\ fnPc' = "done"
    /\ UNCHANGED <<env, fnIn, runVars>>

SpecTool == InitTool /\ [][CallTool]_vars

\* the stage at which db_query leaves the pipeline for the text stages st
\* under the tables of the context: 3 the guard, 4 enforce_readonly,
\* 5 enforce_allowlist, 6 the executor
LastStage(st, tables) ==
    IF st.missing # {} /\ Len(real_tables(tables)) # 1 THEN 3
    ELSE IF st.ro # "ok" THEN 4
    ELSE IF st.al # "ok" THEN 5
    ELSE 6

\* C1: for every db_query tool call, the executor is invoked only with the
\* normalised and injected statement and only after that statement passed
\* the missing-virtual guard, enforce_readonly and enforce_allowlist, in
\* this order, on the path that invokes it; if one of the three rejects,
\* the executor is not invoked for the call and the result is an error
\* payload instead of rows.
C1_ExecutorAfterChecks ==
    fnPc = "done" =>
        \E st \in {staged_cache[<<fnIn.sql, fnIn.tables>>]} :
        \E last \in {LastStage(st, fnIn.tables)} :
            /\ \A k \in 1..Len(fnOut.attempts) :
                  fnOut.attempts[k] = SubSeq(QueryStages, 1, last)
            /\ \A k \in 1..Len(fnOut.execs) :
                  last = 6 /\ fnOut.execs[k].sql = st.sqln
            /\ last < 6 => /\ fnOut.execs = << >>
                           /\ IsErrorPayload(fnOut.result)
                           /\ fnOut.result.kind # "rows"

\* the allowlist rejected a statement that passed the guard and
\* enforce_readonly, on the tool server and again on the local path, and
\* the executor was not invoked
C1_Witness ==
    /\ fnPc = "done"
    /\ fnIn.sql = SecretsSql
    /\ fnIn.tables = <<PricesTable>>
    /\ fnIn.out.db1.raises = FALSE
    /\ fnOut.indirection = "failed"
    /\ fnOut.attempts = <<SubSeq(QueryStages, 1, 5), SubSeq(QueryStages, 1, 5)>>
    /\ fnOut.execs = << >>
    /\ fnOut.result = ErrorResult("Referenced table 'secrets' is not in the allowed context")

\* C12: when the normalized and injected statement of a db_query call uses a
\* virtual alias query_result(_n), in any letter case, that no backed virtual
\* table of the context defines, and the context does not hold exactly one
\* real table, the call returns the structured error with error,
\* missingVirtuals, availableVirtuals, hint and sql, and the executor is not
\* invoked, neither by the tool server nor by the local fallback.
C12_MissingVirtualShortCircuits ==
    fnPc = "done" =>
        \A st \in {staged_cache[<<fnIn.sql, fnIn.tables>>]} :
            /\ \E u \in st.aliases : lower(u) \notin st.available
            /\ Len(real_tables(fnIn.tables)) # 1
            => /\ fnOut.execs = << >>
               /\ fnOut.raised = ""
               /\ fnOut.result =
                     [kind |-> "missing_virtuals",
                      error |-> "Missing virtual tables in chartContext",
                      missingVirtuals |-> {lower(u) : u \in st.aliases} \ st.available,
                      availableVirtuals |-> st.available,
                      hint |-> MissingHint,
                      sql |-> st.sqln]

\* a statement that writes the alias as Query_Result, under two real tables
\* and no virtual table, came back as the structured error
C12_Witness ==
    /\ fnPc = "done"
    /\ fnIn.sql = "SELECT * FROM Query_Result q"
    /\ fnIn.tables = <<PricesTable, TradesTable>>
    /\ fnOut.result.kind = "missing_virtuals"
    /\ fnOut.result.missingVirtuals = {"query_result"}
    /\ fnOut.result.availableVirtuals = {}
    /\ fnOut.execs = << >>

-----------------------------------------------------------------------------
(* SpecAL: one call of enforce_allowlist, in relaxed and in strict mode, on *)
(* every text of at most MaxAlFrags fragments under every context of        *)
(* AlContexts                                                               *)

MaxAlFrags == 3

AlFrags ==
    {"SELECT 1", "SELECT * FROM ", "SELECT *\nFROM ", "prices", "secrets", "public.Prices",
     "\"prices\"", " JOIN ", ", secrets", " ", "x", "trades"}

AlContexts == {<< >>, <<PricesTable>>, <<PricesTable, TradesTable>>}

InitAL ==
    /\ env \in [ro_strict : {FALSE}, allow_strict : BOOLEAN, mcp_available : {TRUE}]
    /\ fnIn \in [sql : Texts(AlFrags, MaxAlFrags), tables : AlContexts]
    /\ fnOut = "none"
    /\ fnPc = "ready"
    /\ staged_cache = << >>
    /\ RunIdle

CallAllowlist ==
    /\ fnPc = "ready"
    /\ fnOut' = enforce_allowlist(fnIn.sql, fnIn.tables, env.allow_strict)
    /\ fnPc' = "done"
    /\ UNCHANGED <<env, fnIn, runVars>>

SpecAL == InitAL /\ [][CallAllowlist]_vars

\* the statement holds the keyword FROM, in any letter case, with a
\* character of delims (or an end of the text) on either side
FromDelimitedBy(sql, delims) ==
    \E i \in 1..Len(sql) :
        /\ MatchCI(sql, "FROM", i)
        /\ Chr(sql, i - 1) \in delims \cup {""}
        /\ Chr(sql, i + 4) \in delims \cup {""}

\* an allowed table name of the context occurs in the statement, compared
\* case-insensitively as a substring
NamesAllowedTable(sql, tables) ==
    \E k \in 1..Len(tables) : contains(lower(sql), lower(tables[k].name))

\* C14: in relaxed mode enforce_allowlist accepts everything when the
\* context has no tables, accepts every statement without a FROM clause
\* (SELECT 1), and rejects every statement that has a FROM clause, whatever
\* whitespace delimits the keyword, unless a table name of the context
\* occurs in it as a case-insensitive substring.
C14_RelaxedAllowlist ==
    fnPc = "done" /\ ~env.allow_strict =>
        /\ fnIn.tables = << >> => fnOut = "ok"
        /\ ~FromDelimitedBy(fnIn.sql, SpaceSet) => fnOut = "ok"
        /\ fnIn.sql = "SELECT 1" => fnOut = "ok"
        /\ /\ fnIn.tables # << >>
           /\ FromDelimitedBy(fnIn.sql, SpaceSet)
           /\ ~NamesAllowedTable(fnIn.sql, fnIn.tables)
           => fnOut # "ok"

\* C14 for a FROM keyword between blanks, where it holds: such a statement
\* is accepted exactly when the context has no tables or one of its table
\* names occurs in the statement
C14_BlankDelimitedFrom ==
    fnPc = "done" /\ ~env.allow_strict =>
        /\ fnIn.tables = << >> => fnOut = "ok"
        /\ ~FromDelimitedBy(fnIn.sql, {" "}) => fnOut = "ok"
        /\ fnIn.tables # << >> /\ FromDelimitedBy(fnIn.sql, {" "})
           => (fnOut = "ok" <=> NamesAllowedTable(fnIn.sql, fnIn.tables))

\* the lower-cased table names of the context
ContextNames(tables) == {lower(tables[k].name) : k \in 1..Len(tables)}

\* the identifier at i, surrounding quotes and schema prefix removed, in
\* lower case
TargetAt(sql, i) == lower(last_part(strip_quotes(SubSeq(sql, i, SkipIdent(sql, i) - 1))))

\* the identifiers that follow FROM or JOIN
FromJoinTargets(sql) ==
    {TargetAt(sql, SkipWs(sql, i + 4)) :
        i \in {j \in 1..Len(sql) : ident_match(sql, "FROM", j) \/ ident_match(sql, "JOIN", j)}}

\* the tables a statement reads through a comma-separated FROM list: the
\* identifier after FROM and the identifier after the comma that follows it
FromListTables(sql) ==
    UNION {LET a == SkipWs(sql, i + 4)
               c == SkipWs(sql, SkipIdent(sql, a))
               b == SkipWs(sql, c + 1)
           IN  {TargetAt(sql, a)} \cup
               (IF Chr(sql, c) = "," /\ SkipIdent(sql, b) > b THEN {TargetAt(sql, b)} ELSE {}) :
           i \in {j \in 1..Len(sql) : ident_match(sql, "FROM", j)}}

\* C15: in strict mode, under a context with tables, enforce_allowlist
\* accepts a statement if and only if it has at least one FROM/JOIN target and
\* every identifier that follows FROM or JOIN, surrounding quotes and schema
\* prefix removed, is in any letter case a table name of the context; SELECT 1
\* is rejected, and so is every statement that reads a table outside the
\* context.
C15_StrictAllowlist ==
    fnPc = "done" /\ env.allow_strict /\ fnIn.tables # << >> =>
        /\ fnOut = "ok" <=> /\ FromJoinTargets(fnIn.sql) # {}
                            /\ FromJoinTargets(fnIn.sql) \subseteq ContextNames(fnIn.tables)
        /\ fnIn.sql = "SELECT 1" => fnOut # "ok"
        /\ ~(FromListTables(fnIn.sql) \subseteq ContextNames(fnIn.tables)) => fnOut # "ok"

\* C15 for the identifiers that follow FROM or JOIN directly, where it
\* holds: the statement is accepted exactly when there is such an identifier
\* and each one names a table of the context
C15_DirectTargetsOnly ==
    fnPc = "done" /\ env.allow_strict /\ fnIn.tables # << >> =>
        /\ fnOut = "ok" <=> /\ FromJoinTargets(fnIn.sql) # {}
                            /\ FromJoinTargets(fnIn.sql) \subseteq ContextNames(fnIn.tables)
        /\ fnIn.sql = "SELECT 1" => fnOut # "ok"

-----------------------------------------------------------------------------
(* SpecInj: one call of _inject_virtual_table on every text of at most      *)
(* MaxInjFrags fragments under every context of InjContexts                 *)

MaxInjFrags == 3

InjFrags ==
    {"SELECT * FROM ", "query_result", "Query_Result_2", " JOIN ", "WITH x AS (SELECT 1) ",
     "with\nx AS (SELECT 1) ", "x", "_", "2", " ", "\n"}

BackedVirtual2 ==
    [name |-> "query_result_2", columns |-> <<"ts", "qty">>,
     base_sql |-> "SELECT ts, qty FROM trades"]

InjContexts ==
    {<< >>, <<PricesTable>>, <<PricesTable, TradesTable>>, <<LegacyTable>>,
     <<LegacyTable, TradesTable>>, <<BackedVirtual>>,
     <<PricesTable, BackedVirtual2, LegacyTable, BackedVirtual>>}

InitInj ==
    /\ env \in [ro_strict : {FALSE}, allow_strict : {FALSE}, mcp_available : {TRUE}]
    /\ fnIn \in [sql : Texts(InjFrags, MaxInjFrags), tables : InjContexts]
    /\ fnOut = "none"
    /\ fnPc = "ready"
    /\ staged_cache = << >>
    /\ RunIdle

CallInject ==
    /\ fnPc = "ready"
    /\ fnOut' = inject_virtual_table(fnIn.sql, fnIn.tables)
    /\ fnPc' = "done"
    /\ UNCHANGED <<env, fnIn, runVars>>

SpecInj == InitInj /\ [][CallInject]_vars

\* the tables of the context whose name is query_result or query_result_<int>
\* and that carry a base_sql, in context order
BackedOf(tables) ==
    SelectSeq(tables, LAMBDA t : t.base_sql # "" /\ is_virtual_name(t.name))

\* alias AS (base_sql) for each table of ts, joined by a comma and a newline
RECURSIVE Definitions(_)
Definitions(ts) ==
    IF Len(ts) = 0 THEN ""
    ELSE IF Len(ts) = 1 THEN ts[1].name \o " AS (" \o ts[1].base_sql \o ")"
    ELSE ts[1].name \o " AS (" \o ts[1].base_sql \o "),\n" \o Definitions(Tail(ts))

\* the number of positions of s that hold p
Occurrences(s, p) == Cardinality({i \in 1..Len(s) : MatchAt(s, p, i)})

\* what C16 says of the statement out that inject returned for sql: delims
\* is the white space that may follow the WITH keyword of a leading WITH
\* clause of sql
InjectedWith(sql, tables, out, delims) ==
    \A s \in {strip(sql)} : \A defs \in {Definitions(BackedOf(tables))} :
        /\ startswith(out, "WITH ")
        /\ \A k \in 1..Len(BackedOf(tables)) :
              Occurrences(out, BackedOf(tables)[k].name \o " AS (") = 1
        /\ IF MatchCI(s, "WITH", 1) /\ Chr(s, 5) \in delims
           THEN out = "WITH " \o defs \o ",\n" \o lstrip(SubSeq(s, 5, Len(s)))
           ELSE out = "WITH " \o defs \o "\n" \o s

\* C16: when the context has at least one backed virtual table, inject
\* returns a statement that starts with WITH, defines every backed virtual
\* alias exactly once as alias AS (base_sql) in context order, and goes on
\* with the original statement verbatim; when the original statement begins
\* with a WITH clause, its definitions follow the injected ones under the one
\* leading WITH keyword.
C16_BackedVirtualsInjected ==
    fnPc = "done" /\ Len(BackedOf(fnIn.tables)) > 0 =>
        InjectedWith(fnIn.sql, fnIn.tables, fnOut, SpaceSet)

\* C16 for a leading WITH keyword that a blank follows, where it holds
C16_BlankAfterWith ==
    fnPc = "done" /\ Len(BackedOf(fnIn.tables)) > 0 =>
        InjectedWith(fnIn.sql, fnIn.tables, fnOut, {" "})

\* w is query_result or query_result_<int> in any letter case
VirtualWord(w) ==
    \/ Len(w) = 12 /\ MatchCI(w, "QUERY_RESULT", 1)
    \/ /\ Len(w) > 13
       /\ MatchCI(w, "QUERY_RESULT_", 1)
       /\ \A k \in 14..Len(w) : Chr(w, k) \in DigitSet

\* the ends of the whole-word tokens query_result(_<int>) that start at i
TokenEnds(s, i) ==
    IF ~MatchCI(s, "QUERY_RESULT", i) \/ Chr(s, i - 1) \in WordSet THEN {}
    ELSE {e \in (i + 11)..Len(s) : VirtualWord(SubSeq(s, i, e)) /\ Chr(s, e + 1) \notin WordSet}

HasToken(s) == \E i \in 1..Len(s) : TokenEnds(s, i) # {}

\* s from i on, each token replaced by name and every other character kept
RECURSIVE Rewritten(_, _, _)
Rewritten(s, name, i) ==
    IF i > Len(s) THEN ""
    ELSE IF TokenEnds(s, i) # {}
         THEN name \o Rewritten(s, name, (CHOOSE e \in TokenEnds(s, i) : TRUE) + 1)
    ELSE Chr(s, i) \o Rewritten(s, name, i + 1)

\* the tables of the context that are not named query_result(_<int>)
RealOf(tables) == SelectSeq(tables, LAMBDA t : ~is_virtual_name(t.name))

-----------------------------------------------------------------------------
(* SpecRender: one call of the chart-spec validator, for every spec of      *)
(* RenderSpecs under every context of RenderContexts                        *)

RenderChannels == <<"x", "y", "open", "high", "low", "close">>

\* what a spec may hold for a channel: no entry ("absent"), an entry that
\* names no field (""), or an entry with the field
FieldOptions ==
    [x     |-> {"absent", "", "ts", "Prices.ts"},
     y     |-> {"absent", "", "Close", "volume"},
     open  |-> {"absent", "", "prices.Close", "trades.close"},
     high  |-> {"absent", "", "qty", "close"},
     low   |-> {"absent", "", "trades.qty", "nope.ts"},
     close |-> {"absent", "", "CLOSE", "prices.qty"}]

RenderMarks == {"line", "candlestick", "CandleStick"}

\* the encoding that holds, in the order of RenderChannels, the entries choice names
EncodingOf(choice) ==
    LET present == SelectSeq(RenderChannels, LAMBDA ch : choice[ch] # "absent")
    IN  [k \in 1..Len(present) |-> [channel |-> present[k], field |-> choice[present[k]]]]

RenderSpecs ==
    {[mark |-> m, encoding |-> EncodingOf(choice), data |-> "", layer |-> << >>] :
        m \in RenderMarks,
        choice \in [x : FieldOptions.x, y : FieldOptions.y, open : FieldOptions.open,
                    high : FieldOptions.high, low : FieldOptions.low, close : FieldOptions.close]}

\* a table whose name and columns are written with capitals
CapitalsTable == [name |-> "Prices", columns |-> <<"TS", "Close">>, base_sql |-> ""]

RenderContexts == {<< >>, <<PricesTable>>, <<PricesTable, TradesTable>>, <<CapitalsTable>>}

InitRender ==
    /\ env \in [ro_strict : {FALSE}, allow_strict : {FALSE}, mcp_available : {TRUE}]
    /\ fnIn \in [spec : RenderSpecs, tables : RenderContexts]
    /\ fnOut = "none"
    /\ fnPc = "ready"
    /\ staged_cache = << >>
    /\ RunIdle

CallRender ==
    /\ fnPc = "ready"
    /\ fnOut' = plot_render(fnIn.spec, fnIn.tables)
    /\ fnPc' = "done"
    /\ UNCHANGED <<env, fnIn, runVars>>

SpecRender == InitRender /\ [][CallRender]_vars

\* the columns of table t in lower case
ColumnsOf(t) == {lower(t.columns[j]) : j \in 1..Len(t.columns)}

\* a field reference is valid: alias.column when alias is a table name of
\* the context and column is in that table's columns, a bare column when it
\* is in the columns of some table; columns compared in lower case
ValidField(f, tables) ==
    LET dot == FindChr(f, ".", 1)
    IN  IF dot > 0
        THEN \E k \in 1..Len(tables) :
                /\ tables[k].name = SubSeq(f, 1, dot - 1)
                /\ lower(SubSeq(f, dot + 1, Len(f))) \in ColumnsOf(tables[k])
        ELSE \E k \in 1..Len(tables) : lower(f) \in ColumnsOf(tables[k])

FieldIssue(f, ch) == "Field not in context: " \o f \o " (encoding." \o ch \o ")"

MissingIssue(ch) == "Missing encoding." \o ch \o " for candlestick"

IssuesOf(result) == {result.issues[k] : k \in 1..Len(result.issues)}

\* C18: the validator appends an issue that names the channel and the field
\* of an encoding channel if and only if the channel's field reference is
\* invalid (alias.column: alias is a table name of the context and column is
\* in that table's columns; bare column: in the union of all columns; columns
\* compared case-insensitively); ok is true exactly when the issue list is
\* empty; the result is returned, never raised.
C18_IssueIffInvalidField ==
    fnPc = "done" =>
        /\ fnOut.raised = ""
        /\ fnOut.result.ok <=> fnOut.result.issues = << >>
        /\ \A k \in 1..Len(fnIn.spec.encoding) :
              \A en \in {fnIn.spec.encoding[k]} :
                  en.field # "" =>
                      (FieldIssue(en.field, en.channel) \in IssuesOf(fnOut.result)
                          <=> ~ValidField(en.field, fnIn.tables))
        /\ \A issue \in IssuesOf(fnOut.result) :
              \/ \E k \in 1..Len(fnIn.spec.encoding) :
                    issue = FieldIssue(fnIn.spec.encoding[k].field, fnIn.spec.encoding[k].channel)
              \/ \E ch \in DOMAIN FieldOptions : issue = MissingIssue(ch)

\* a line spec under two tables: the upper-case column and the qualified
\* column passed, the alias in the wrong case and the column of the other
\* table were reported
C18_Witness ==
    /\ fnPc = "done"
    /\ fnIn.tables = <<PricesTable, TradesTable>>
    /\ fnIn.spec.mark = "line"
    /\ fnIn.spec.encoding = <<[channel |-> "x", field |-> "Prices.ts"],
                               [channel |-> "y", field |-> "Close"],
                               [channel |-> "open", field |-> "prices.Close"],
                               [channel |-> "close", field |-> "prices.qty"]>>
    /\ fnOut.result.issues = <<FieldIssue("Prices.ts", "x"), FieldIssue("prices.qty", "close")>>
    /\ ~fnOut.result.ok

\* the entries of the encoding for channel ch (none or one)
EntriesFor(spec, ch) ==
    {spec.encoding[k] : k \in {j \in 1..Len(spec.encoding) : spec.encoding[j].channel = ch}}

\* the union of the columns of all tables, in lower case
ColumnUnion(tables) == UNION {ColumnsOf(tables[k]) : k \in 1..Len(tables)}

\* what C19 says of a validation result; fieldless tells whether a required
\* channel that is present may name no field
CandlestickChecked(spec, tables, result, fieldless) ==
    /\ lower(spec.mark) = "candlestick" =>
          \A k \in 1..Len(CandlestickChannels) : \A ch \in {CandlestickChannels[k]} :
              /\ EntriesFor(spec, ch) = {} =>
                    ~result.ok /\ MissingIssue(ch) \in IssuesOf(result)
              /\ \A en \in EntriesFor(spec, ch) :
                    /\ en.field = "" /\ ~fieldless => ~result.ok
                    /\ en.field # "" /\ ~ValidField(en.field, tables) =>
                          ~result.ok /\ FieldIssue(en.field, ch) \in IssuesOf(result)
    /\ /\ lower(spec.mark) # "candlestick"
       /\ \A k \in 1..Len(spec.encoding) :
             spec.encoding[k].field # "" => lower(spec.encoding[k].field) \in ColumnUnion(tables)
       => result.ok /\ result.issues = << >>

\* C19: for a spec whose mark is candlestick in any letter case the
\* validator requires the channels x, open, high, low and close: each absent
\* one yields ok = false with an issue naming it, and each present one must
\* reference a valid field; a spec of another mark whose referenced fields
\* are all in the union of the allowed columns yields ok = true and no issue.
C19_CandlestickChannelsRequired ==
    fnPc = "done" => CandlestickChecked(fnIn.spec, fnIn.tables, fnOut.result, FALSE)

\* C19 where it holds: a required channel that is present and names a field
\* must name a valid one; one that is present and names no field is let pass
C19_FieldedChannelsChecked ==
    fnPc = "done" => CandlestickChecked(fnIn.spec, fnIn.tables, fnOut.result, TRUE)

\* the positions of the issue list that name channel ch
IssuesNaming(spec, result, ch) ==
    {k \in 1..Len(result.issues) :
        \/ result.issues[k] = MissingIssue(ch)
        \/ \E en \in EntriesFor(spec, ch) : result.issues[k] = FieldIssue(en.field, ch)}

\* a required channel of a candlestick spec is present with a field reference
\* that is not valid under the context
CandlestickFieldMiss(spec, tables) ==
    /\ lower(spec.mark) = "candlestick"
    /\ \E k \in 1..Len(CandlestickChannels) :
          \E en \in EntriesFor(spec, CandlestickChannels[k]) :
              en.field # "" /\ ~ValidField(en.field, tables)

\* no channel contributes more than one issue and no entry of the list occurs twice
OneIssuePerChannel(spec, result) ==
    /\ \A ch \in DOMAIN FieldOptions : Cardinality(IssuesNaming(spec, result, ch)) <= 1
    /\ Cardinality(IssuesOf(result)) = Len(result.issues)

\* C30: the validator's issue list holds one issue per offending encoding
\* channel: for every spec, candlestick specs whose x/open/high/low/close
\* channels are present with a field outside the context included, no channel
\* contributes more than one issue and the list holds no duplicate entry.
C30_OneIssuePerChannel ==
    fnPc = "done" => OneIssuePerChannel(fnIn.spec, fnOut.result)

\* C30 where it holds: every spec but a candlestick spec with a required
\* channel that is present and references a field outside the context
C30_OneIssueUnlessCandlestickMiss ==
    fnPc = "done" /\ ~CandlestickFieldMiss(fnIn.spec, fnIn.tables)
        => OneIssuePerChannel(fnIn.spec, fnOut.result)

-----------------------------------------------------------------------------
(* SpecBind: the enrichment of one plot_render result with the datasets of  *)
(* the prior queries of the run, for every list of at most MaxPrior query   *)
(* records and every spec of BindSpecs                                      *)

MaxPrior == 2

PriorSqls ==
    {"SELECT * FROM prices", "SELECT * FROM query_result", "SELECT * FROM query_result_2",
     "SELECT * FROM Query_Result q JOIN query_result_2 r ON q.ts = r.ts"}

\* the record the loop keeps of the k-th db_query call of the run; its rows
\* are tagged with k
PriorRecord(sql, k, ok) ==
    [sql |-> sql, normalized_sql |-> sql, injected_sql |-> sql,
     result |-> IF ok THEN [kind |-> "rows", rows |-> [call |-> k, size |-> 1, jsonable |-> TRUE]]
                ELSE ErrorResult("relation does not exist")]

PriorLists ==
    UNION {{[k \in 1..n |-> PriorRecord(sqls[k], k, oks[k])] :
                sqls \in [1..n -> PriorSqls], oks \in [1..n -> BOOLEAN]} : n \in 0..MaxPrior}

BindSpecs ==
    {[mark |-> "line", encoding |-> << >>, data |-> d, layer |-> l] :
        d \in {"", "query_result", "Query_Result", "query_result_2"},
        l \in {<< >>, <<"query_result_2">>, <<"QUERY_RESULT", "other">>}}

InitBind ==
    /\ env \in [ro_strict : {FALSE}, allow_strict : {FALSE}, mcp_available : {TRUE}]
    /\ fnIn \in [spec : BindSpecs, prior : PriorLists]
    /\ fnOut = "none"
    /\ fnPc = "ready"
    /\ staged_cache = << >>
    /\ RunIdle

\* the enrichment of the result of a plot_render call in the tool loop
CallBind ==
    /\ fnPc = "ready"
    /\ fnOut' = enrich([id |-> Len(fnIn.prior) + 1, name |-> "plot_render"],
                       ObjectArgs("", TablesCtx(<<PricesTable>>), fnIn.spec),
                       plot_render(fnIn.spec, <<PricesTable>>).result, fnIn.prior)
    /\ fnPc' = "done"
    /\ UNCHANGED <<env, fnIn, runVars>>

SpecBind == InitBind /\ [][CallBind]_vars

\* the whole-word tokens query_result(_<int>) of s, as they are written
TokensOf(s) ==
    {SubSeq(s, i, CHOOSE e \in TokenEnds(s, i) : TRUE) :
        i \in {j \in 1..Len(s) : TokenEnds(s, j) # {}}}

\* the dataset names a spec references: its data.name and those of its layers
ReferencedNames(spec) == ({spec.data} \cup {spec.layer[k] : k \in 1..Len(spec.layer)}) \ {""}

\* the names bound by prior queries: the aliases written in a statement that
\* returned rows, and query_result for a statement with rows and no alias
BoundNames(prior) ==
    UNION {IF prior[k].result.kind # "rows" THEN {}
           ELSE IF TokensOf(prior[k].injected_sql) = {} THEN {"query_result"}
           ELSE TokensOf(prior[k].injected_sql) : k \in 1..Len(prior)}

\* the keys of the dataset map attached to a render result (none attached: no key)
DatasetKeys(result) == IF "datasets" \in DOMAIN result THEN DOMAIN result.datasets ELSE {}

\* C20 as the specification words it: when the spec references dataset
\* names, the keys of the attached dataset map are exactly the referenced
\* names that prior queries bound, and no other key.
C20_ExactlyReferencedBound ==
    fnPc = "done" /\ ReferencedNames(fnIn.spec) # {} =>
        DatasetKeys(fnOut) = ReferencedNames(fnIn.spec) \cap BoundNames(fnIn.prior)

\* C20: when the spec references dataset names, the keys of the attached
\* dataset map are the referenced names that prior queries bound, and
\* query_result as well when it is bound and the spec references it in
\* another letter case under a name that is not bound itself; records bound
\* to query_result and query_result_2 with a spec that references only
\* query_result_2 give the one key query_result_2; when the spec references
\* no dataset name, every binding is returned.
C20_ReferencedBoundOrFallback ==
    fnPc = "done" =>
        \A names \in {ReferencedNames(fnIn.spec)} : \A bound \in {BoundNames(fnIn.prior)} :
            /\ names # {} =>
                  DatasetKeys(fnOut) =
                      (names \cap bound)
                      \cup {n \in {"query_result"} \cap bound :
                               \E r \in names \ bound : lower(r) = "query_result"}
            /\ names = {} => DatasetKeys(fnOut) = bound
            /\ names = {"query_result_2"} /\ bound = {"query_result", "query_result_2"}
                  => DatasetKeys(fnOut) = {"query_result_2"}

\* a spec that references Query_Result and query_result_2 after a query on
\* prices and a query on query_result_2: the map holds query_result, which
\* the spec does not reference under that name, and query_result_2
C20_Witness ==
    /\ fnPc = "done"
    /\ fnIn.spec.data = "Query_Result"
    /\ fnIn.spec.layer = <<"query_result_2">>
    /\ Len(fnIn.prior) = 2
    /\ fnIn.prior[1].injected_sql = "SELECT * FROM prices"
    /\ fnIn.prior[2].injected_sql = "SELECT * FROM query_result_2"
    /\ DatasetKeys(fnOut) = {"query_result", "query_result_2"}

\* the record q supplies the name a: it returned a row list and its statement
\* holds the token a, or holds no token at all when a is query_result
Supplies(q, a) ==
    /\ q.result.kind = "rows"
    /\ \A toks \in {TokensOf(q.injected_sql)} :
          a \in toks \/ (toks = {} /\ a = "query_result")

-----------------------------------------------------------------------------
(* db_query calls on the backed virtual tables of the context (SpecTool)    *)

\* every FROM/JOIN target of the statement is a backed virtual alias of the context
AllTargetsBacked(sql, tables) ==
    \A targets \in {FromJoinTargets(sql)} :
        /\ targets # {}
        /\ targets \subseteq {lower(t.name) : t \in {BackedOf(tables)[k] : k \in 1..Len(BackedOf(tables))}}

\* C23: a db_query whose FROM/JOIN targets are all backed virtual aliases of
\* the context is not rejected by enforce_allowlist on the injected
\* statement, in relaxed mode and in strict mode, whatever the base_sql of
\* the aliases reads.
C23_BackedAliasesPassAllowlist ==
    fnPc = "done" /\ AllTargetsBacked(fnIn.sql, fnIn.tables)
        => staged_cache[<<fnIn.sql, fnIn.tables>>].al = "ok"

\* C23 where it holds: in relaxed mode, and in strict mode when the tables
\* that the base_sql of the aliases reads are tables of the context
C23_PassWhenBaseTablesAllowed ==
    fnPc = "done" /\ AllTargetsBacked(fnIn.sql, fnIn.tables)
        /\ (env.allow_strict =>
                \A k \in 1..Len(BackedOf(fnIn.tables)) :
                    FromJoinTargets(BackedOf(fnIn.tables)[k].base_sql) \subseteq ContextNames(fnIn.tables))
        => staged_cache[<<fnIn.sql, fnIn.tables>>].al = "ok"

\* the virtual aliases of the context that have a base_sql, in lower case
BackedNames(tables) == {lower(BackedOf(tables)[k].name) : k \in 1..Len(BackedOf(tables))}

\* the statement holds a query_result(_n) token that no backed virtual table defines
HoldsUnbackedToken(sql, tables) ==
    \E t \in TokensOf(sql) : lower(t) \notin BackedNames(tables)

\* C27: the executor is never invoked with a statement that still holds a
\* query_result(_n) token naming no backed virtual table of the context,
\* under every context, one with backed virtual tables and exactly one
\* real table included: such a reference was rewritten to the single real
\* table, or the call was answered with missingVirtuals and hint.
C27_NoUnbackedVirtualExecuted ==
    fnPc = "done" =>
        /\ \A k \in 1..Len(fnOut.execs) : ~HoldsUnbackedToken(fnOut.execs[k].sql, fnIn.tables)
        /\ HoldsUnbackedToken(fnIn.sql, fnIn.tables) /\ fnOut.execs = << >> /\ fnOut.raised = ""
              => fnOut.result.kind = "missing_virtuals"

\* C27 where it holds: under the contexts without a backed virtual table,
\* and under those whose real tables are none or several
C27_HoldsWithoutBackedAndOneReal ==
    fnPc = "done" /\ ~(BackedNames(fnIn.tables) # {} /\ Len(real_tables(fnIn.tables)) = 1) =>
        /\ \A k \in 1..Len(fnOut.execs) : ~HoldsUnbackedToken(fnOut.execs[k].sql, fnIn.tables)
        /\ HoldsUnbackedToken(fnIn.sql, fnIn.tables) /\ fnOut.execs = << >> /\ fnOut.raised = ""
              => fnOut.result.kind = "missing_virtuals"

\* C28: a db_query tool call causes at most one invocation of the
\* read-only executor, whether the tool server or the local fallback serves
\* it, also when the call through the tool server fails after the tool
\* body has run.
C28_AtMostOneExecution == fnPc = "done" => Len(fnOut.execs) <= 1

\* C28 where it holds: when the tool server is not used, when it delivers
\* the result, and when it fails before its tool body reached the executor
C28_OneExecutionUnlessServerFailsLate ==
    fnPc = "done" =>
        /\ fnOut.indirection \in {"none", "ok"} => Len(fnOut.execs) <= 1
        /\ Len(fnOut.execs) = 2 =>
              /\ fnOut.indirection = "failed"
              /\ fnOut.execs[1].via = "mcp" /\ fnOut.execs[2].via = "local"
              /\ fnOut.execs[1].sql = fnOut.execs[2].sql
        /\ Len(fnOut.execs) <= 2

-----------------------------------------------------------------------------
(* SpecModes: run_agent and run_agent_stream side by side on the same       *)
(* question, chart context, completions and tool-server and executor        *)
(* behaviour, up to the first completion without tool calls                 *)

\* a run that has not started: its position, the messages it sends to the
\* model, the tool calls of the round still to handle, its query records
\* and the tool calls it executed
NewRun == [pc |-> "start", messages |-> << >>, tool_calls |-> << >>, prior_queries |-> << >>,
           executed |-> << >>]

\* the head of a run in mode m: the two messages, or the exception of user_template
begin_run(m, run, ctx) ==
    LET um == user_template("question", ctx)
    IN  IF um.raised = ""
        THEN [run EXCEPT !.pc = "awaiting_model",
                         !.messages = <<[role |-> "system", content |-> "SYSTEM_SQL"],
                                        [role |-> "user", content |-> um.content]>>]
        ELSE [run EXCEPT !.pc = IF m = "sync" THEN "failed" ELSE "raised"]

\* the body of `for tc in tool_calls` in mode m for the tool call tc of the
\* round, after its arguments were decoded (raw, args), its statement staged
\* (st) and its result obtained and enriched (result)
tool_step(m, run, tc, raw, args, st, result) ==
    IF tc.name \in KnownTools /\ raw.json # "object" THEN [run EXCEPT !.pc = "failed"]
    ELSE IF m = "sync" /\ ~dumps_ok(result)
    THEN [run EXCEPT
            !.pc = "failed",
            !.executed = Append(@, [id |-> tc.id, name |-> tc.name, arguments |-> args,
                                    result |-> result]),
            !.prior_queries =
                IF tc.name = "db_query"
                THEN Append(@, [sql |-> args.sql, normalized_sql |-> st.normalized_sql,
                                injected_sql |-> st.sqln, result |-> result])
                ELSE @]
    ELSE [run EXCEPT
            !.executed = Append(@, [id |-> tc.id, name |-> tc.name, arguments |-> args,
                                    result |-> result]),
            !.prior_queries =
                IF tc.name = "db_query"
                THEN Append(@, [sql |-> args.sql, normalized_sql |-> st.normalized_sql,
                                injected_sql |-> st.sqln, result |-> result])
                ELSE @,
            !.messages = @ \o <<ToolMessage(tc, result)>>
                \o (IF m = "sync" /\ tc.name = "db_query" /\ result.kind = "missing_virtuals"
                    THEN <<NudgeMessage>> ELSE << >>),
            !.tool_calls = Tail(@),
            !.pc = IF Len(run.tool_calls) = 1 THEN "awaiting_model" ELSE @]

InitModes ==
    /\ env \in RunEnvs
    /\ chart_context \in CallerContexts
    /\ model_calls \in Repertoires
    /\ staged_cache = [k \in StagedKeys(model_calls, chart_context) |->
                           query_stages(k[1], k[2], env)]
    /\ fnIn = << >>
    /\ fnOut = [sync |-> NewRun, stream |-> NewRun]
    /\ fnPc = "start"
    /\ mode = "sync" /\ cl = TRUE /\ pc = "idle"
    /\ messages = << >> /\ tool_calls = << >> /\ tool_traces = << >> /\ prior_queries = << >>
    /\ events = << >> /\ assembled = "" /\ stream_seen = 0 /\ outcome = NoOutcome
    /\ executor_log = << >> /\ completions = 0 /\ requested = << >> /\ call_log = << >>

BothAt(p) == fnOut.sync.pc = p /\ fnOut.stream.pc = p

\* both runs build their messages
PairBegin ==
    /\ BothAt("start")
    /\ fnOut' = [sync |-> begin_run("sync", fnOut.sync, chart_context),
                 stream |-> begin_run("stream", fnOut.stream, chart_context)]
    /\ fnPc' = "running"
    /\ UNCHANGED <<env, fnIn, runVars>>

\* both runs get the same completion, which carries tool calls
PairRequestsTools ==
    /\ BothAt("awaiting_model")
    /\ \E n \in 1..MaxRound : \E calls \in [1..n -> model_calls] :
        /\ Len(fnIn) + n <= MaxCalls
        /\ \E tcs \in {[k \in 1..n |-> [id |-> Len(fnIn) + k, name |-> calls[k].name,
                                          arguments |-> calls[k].arguments]]} :
            /\ fnIn' = fnIn \o tcs
            /\ fnOut' = [sync |-> [fnOut.sync EXCEPT !.pc = "executing_tools", !.tool_calls = tcs],
                         stream |-> [fnOut.stream EXCEPT !.pc = "executing_tools", !.tool_calls = tcs]]
    /\ UNCHANGED <<env, fnPc, runVars>>

\* both runs handle their next tool call; the tool server and the executor
\* behave the same for both
PairExecTool ==
    /\ BothAt("executing_tools")
    /\ \E tc \in {Head(fnOut.sync.tool_calls)} : \E raw \in {loads_args(tc.arguments)} :
       \E out \in OutcomesOf(tc.name) :
       \E args \in {IF tc.name \in KnownTools /\ raw.json = "object"
                    THEN [raw EXCEPT !.chartContext =
                              ensure_chart_context(raw.chartContext, chart_context)]
                    ELSE raw} :
       \E st \in {IF tc.name = "db_query" /\ raw.json = "object"
                  THEN staged(args.sql, args.chartContext.tables, env)
                  ELSE [normalized_sql |-> "", sqln |-> ""]} :
       \E answer \in {IF tc.name \in KnownTools /\ raw.json # "object" THEN ErrorResult("none")
                      ELSE call_mcp_tool(tc.name, args, env, out).result} :
       \E rs \in {enrich(tc, args, answer, fnOut.sync.prior_queries)} :
       \E rt \in {enrich(tc, args, answer, fnOut.stream.prior_queries)} :
        fnOut' = [sync |-> tool_step("sync", fnOut.sync, tc, raw, args, st, rs),
                  stream |-> tool_step("stream", fnOut.stream, tc, raw, args, st, rt)]
    /\ UNCHANGED <<env, fnIn, fnPc, runVars>>

\* both runs get the same completion without tool calls and leave the loop
PairAnswers ==
    /\ BothAt("awaiting_model")
    /\ fnOut' = [sync |-> [fnOut.sync EXCEPT !.pc = "final"],
                 stream |-> [fnOut.stream EXCEPT !.pc = "final"]]
    /\ fnPc' = "done"
    /\ UNCHANGED <<env, fnIn, runVars>>

NextModes == PairBegin \/ PairRequestsTools \/ PairExecTool \/ PairAnswers

SpecModes == InitModes /\ [][NextModes]_vars

\* a run goes on: it is in its loop or left it with the final completion
GoesOn(run) == run.pc \in {"awaiting_model", "executing_tools", "final"}

\* what a run did for the tool calls: the calls it executed with their arguments
CallsOf(run) == [k \in 1..Len(run.executed) |->
                    [id |-> run.executed[k].id, name |-> run.executed[k].name,
                     arguments |-> run.executed[k].arguments]]

\* C24: on the same question, chart context, completions and tool results,
\* run_agent_stream executes the same tool calls with the same arguments in
\* the same order as run_agent, its message list for the model is the same
\* at every round, and a tool result after which one of the two goes on lets
\* the other go on too.
C24_ModesAgree ==
    /\ CallsOf(fnOut.sync) = CallsOf(fnOut.stream)
    /\ fnOut.sync.messages = fnOut.stream.messages
    /\ GoesOn(fnOut.sync) <=> GoesOn(fnOut.stream)

\* C24 where it holds: as long as no db_query reported missing virtual
\* tables and every tool result was JSON-serialisable
C24_AgreeOnPlainResults ==
    (\A k \in 1..Len(fnOut.stream.executed) :
        /\ fnOut.stream.executed[k].result.kind # "missing_virtuals"
        /\ dumps_ok(fnOut.stream.executed[k].result))
    => /\ CallsOf(fnOut.sync) = CallsOf(fnOut.stream)
       /\ fnOut.sync.messages = fnOut.stream.messages
       /\ GoesOn(fnOut.sync) <=> GoesOn(fnOut.stream)

-----------------------------------------------------------------------------
(* SpecBridge: _chat_completions_stream_async (agent.py), the worker thread *)
(* that iterates the blocking token source and the async generator that     *)
(* reads the asyncio.Queue. put_nowait runs on the worker thread, outside   *)
(* the event loop: the queue's deque is updated under the interpreter lock, *)
(* but a getter future completed from that thread is scheduled with          *)
(* call_soon, which does not wake a loop that sleeps in its selector, and   *)
(* the emptiness test and the registration of the getter in Queue.get are   *)
(* two steps of the loop thread between which the worker may run.           *)

MaxChunks == 2

ChunkPayloads == {"Pri", "ces"}

\* the token sources: the events they give, and whether they end or raise then
TokenSources ==
    [chunks : UNION {[1..n -> ChunkPayloads] : n \in 0..MaxChunks}, raises : BOOLEAN]

SourceError == "APIError: stream interrupted"

\* queue, the worker thread (worker, produced), the generator (consumer,
\* yielded, raised), the future Queue.get awaits (getter) and whether the
\* loop has been woken for it (noticed)
InitBridge ==
    /\ env \in [ro_strict : {FALSE}, allow_strict : {FALSE}, mcp_available : {TRUE}]
    /\ fnIn \in TokenSources
    /\ fnOut = [queue |-> << >>, worker |-> "not_started", produced |-> 0,
                consumer |-> "created", yielded |-> << >>, raised |-> "",
                getter |-> "none", noticed |-> FALSE]
    /\ fnPc = "bridge"
    /\ staged_cache = << >>
    /\ RunIdle

\* queue.put_nowait(item) on the worker thread: the item is appended, and a
\* waiting getter is completed; the loop notices it at once or not
put_nowait(b, item, wakes) ==
    [b EXCEPT !.queue = Append(@, item),
              !.getter = IF @ = "waiting" THEN "woken" ELSE @,
              !.noticed = IF b.getter = "waiting" THEN wakes ELSE @]

\* threading.Thread(target=_worker, daemon=True).start(), at the first
\* iteration of the generator: on its own, or by run_agent_stream once a
\* completion came without tool calls
StartWorker ==
    /\ fnPc = "bridge" /\ fnOut.consumer = "created"
    /\ pc \in {"idle", "streaming"}
    /\ fnOut' = [fnOut EXCEPT !.worker = "iterating", !.consumer = "get"]
    /\ UNCHANGED <<env, fnIn, fnPc, runVars>>

\* for event in stream: queue.put_nowait(("chunk", event))
WorkerChunk ==
    /\ fnPc = "bridge" /\ fnOut.worker = "iterating"
    /\ fnOut.produced < Len(fnIn.chunks)
    /\ \E wakes \in BOOLEAN :
        fnOut' = [put_nowait(fnOut, [kind |-> "chunk", payload |-> fnIn.chunks[fnOut.produced + 1]],
                             wakes)
                  EXCEPT !.produced = @ + 1]
    /\ UNCHANGED <<env, fnIn, fnPc, runVars>>

\* the token source raises: queue.put_nowait(("error", e))
WorkerError ==
    /\ fnPc = "bridge" /\ fnOut.worker = "iterating"
    /\ fnOut.produced = Len(fnIn.chunks) /\ fnIn.raises
    /\ \E wakes \in BOOLEAN :
        fnOut' = [put_nowait(fnOut, [kind |-> "error", payload |-> SourceError], wakes)
                  EXCEPT !.worker = "finally"]
    /\ UNCHANGED <<env, fnIn, fnPc, runVars>>

\* the token source ends
WorkerSourceEnds ==
    /\ fnPc = "bridge" /\ fnOut.worker = "iterating"
    /\ fnOut.produced = Len(fnIn.chunks) /\ ~fnIn.raises
    /\ fnOut' = [fnOut EXCEPT !.worker = "finally"]
    /\ UNCHANGED <<env, fnIn, fnPc, runVars>>

\* finally: queue.put_nowait(("done", None)), and the thread ends
WorkerDone ==
    /\ fnPc = "bridge" /\ fnOut.worker = "finally"
    /\ \E wakes \in BOOLEAN :
        fnOut' = [put_nowait(fnOut, [kind |-> "done", payload |-> "None"], wakes)
                  EXCEPT !.worker = "finished"]
    /\ UNCHANGED <<env, fnIn, fnPc, runVars>>

\* kind, payload = await queue.get(), the queue holding an item: the item
\* is taken and the generator yields, raises or ends; on an empty queue
\* Queue.get goes on to register a getter
ConsumerGet ==
    /\ fnPc = "bridge" /\ fnOut.consumer = "get"
    /\ fnOut' =
          IF fnOut.queue = << >> THEN [fnOut EXCEPT !.consumer = "blocked", !.getter = "registering"]
          ELSE IF Head(fnOut.queue).kind = "chunk"
          THEN [fnOut EXCEPT !.queue = Tail(@), !.yielded = Append(@, Head(fnOut.queue).payload)]
          ELSE IF Head(fnOut.queue).kind = "error"
          THEN [fnOut EXCEPT !.queue = Tail(@), !.raised = Head(fnOut.queue).payload,
                             !.consumer = "raised"]
          ELSE [fnOut EXCEPT !.queue = Tail(@), !.consumer = "ended"]
    /\ UNCHANGED <<env, fnIn, fnPc, runVars>>

\* Queue.get on a queue it found empty: self._getters.append(getter); await getter
ConsumerWaits ==
    /\ fnPc = "bridge" /\ fnOut.getter = "registering"
    /\ fnOut' = [fnOut EXCEPT !.getter = "waiting"]
    /\ UNCHANGED <<env, fnIn, fnPc, runVars>>

\* the loop runs the callback of the completed getter: Queue.get tests the
\* queue again
ConsumerResumes ==
    /\ fnPc = "bridge" /\ fnOut.consumer = "blocked"
    /\ fnOut.getter = "woken" /\ fnOut.noticed
    /\ fnOut' = [fnOut EXCEPT !.consumer = "get", !.getter = "none", !.noticed = FALSE]
    /\ UNCHANGED <<env, fnIn, fnPc, runVars>>

\* something else wakes the event loop (another task's I/O or timer), and
\* the loop finds the callback of the completed getter
LoopWakes ==
    /\ fnPc = "bridge" /\ fnOut.getter = "woken" /\ ~fnOut.noticed
    /\ fnOut' = [fnOut EXCEPT !.noticed = TRUE]
    /\ UNCHANGED <<env, fnIn, fnPc, runVars>>

WorkerNext == WorkerChunk \/ WorkerError \/ WorkerSourceEnds \/ WorkerDone

ConsumerNext == StartWorker \/ ConsumerGet \/ ConsumerWaits \/ ConsumerResumes

NextBridge == WorkerNext \/ ConsumerNext \/ LoopWakes

SpecBridge == InitBridge /\ [][NextBridge]_vars

\* the worker thread and the event loop's own task always get to run; that
\* anything else wakes the loop is not given
FairSpecBridge == SpecBridge /\ WF_vars(WorkerNext) /\ WF_vars(ConsumerNext)

\* the chunks the worker enqueued so far
Enqueued == SubSeq(fnIn.chunks, 1, fnOut.produced)

\* the generator yielded the chunks the worker enqueued, in production
\* order, none lost and none twice: a prefix while it runs, all of them
\* when it ended or raised, and it raises the error of the token source
BridgeDelivers ==
    /\ Len(fnOut.yielded) <= fnOut.produced
    /\ fnOut.yielded = SubSeq(fnIn.chunks, 1, Len(fnOut.yielded))
    /\ fnOut.consumer = "ended" => fnOut.yielded = fnIn.chunks /\ ~fnIn.raises
    /\ fnOut.consumer = "raised" =>
          fnOut.yielded = fnIn.chunks /\ fnIn.raises /\ fnOut.raised = SourceError

\* C25: the consumer yields every chunk the worker enqueued, in production
\* order, without loss or duplication; it ends on done and re-raises the
\* error of the token source after the chunks produced before it; and once
\* the worker has finished the consumer does not stay blocked on the queue:
\* it ends or raises.
C25_BridgeDeliversAndEnds ==
    /\ []BridgeDelivers
    /\ (fnOut.worker = "finished") ~> (fnOut.consumer \in {"ended", "raised"})

\* C25 without its last part: what the consumer yields, and how it ends
\* when it ends
C25_BridgeDeliversInOrder == BridgeDelivers

-----------------------------------------------------------------------------
(* Termination of the runs                                                  *)

\* SpecStreamRun: the runs of Spec with the streamed completion of
\* run_agent_stream read through _chat_completions_stream_async
StreamRunSources == [chunks : {<<"Pri">>}, raises : BOOLEAN]

InitStreamRun ==
    /\ env \in {e \in RunEnvs : e.mcp_available /\ ~e.ro_strict}
    /\ chart_context \in {TablesCtx(<<PricesTable, BackedVirtual, TradesTable>>), UntypedCtx}
    /\ model_calls \in {r \in Repertoires : QueryCall \in r /\ RenderCall \notin r}
    /\ staged_cache = [k \in StagedKeys(model_calls, chart_context) |->
                           query_stages(k[1], k[2], env)]
    /\ fnIn \in StreamRunSources
    /\ fnOut = [queue |-> << >>, worker |-> "not_started", produced |-> 0,
                consumer |-> "created", yielded |-> << >>, raised |-> "",
                getter |-> "none", noticed |-> FALSE]
    /\ fnPc = "bridge"
    /\ mode \in {"sync", "stream"}
    /\ cl \in BOOLEAN
    /\ pc = "start"
    /\ messages = << >> /\ tool_calls = << >> /\ tool_traces = << >> /\ prior_queries = << >>
    /\ events = << >> /\ assembled = "" /\ stream_seen = 0 /\ outcome = NoOutcome
    /\ executor_log = << >> /\ completions = 0 /\ requested = << >> /\ call_log = << >>

\* `async for event in _chat_completions_stream_async(...)`: the next event
\* the generator yielded is assembled and yielded as a chunk
StreamTakes ==
    /\ pc = "streaming"
    /\ stream_seen < Len(fnOut.yielded)
    /\ stream_seen' = stream_seen + 1
    /\ assembled' = assemble(assembled, fnOut.yielded[stream_seen + 1])
    /\ events' = Append(events, [type |-> "chunk", delta |-> fnOut.yielded[stream_seen + 1]])
    /\ UNCHANGED <<env, fnVars, mode, cl, chart_context, model_calls, staged_cache, pc, messages, tool_calls,
                   tool_traces, prior_queries, outcome, executor_log, completions, requested, call_log>>

\* the generator ended: done
StreamRunEnds == fnOut.consumer = "ended" /\ stream_seen = Len(fnOut.yielded) /\ StreamEnds

\* the generator raised: error
StreamRunFails == fnOut.consumer = "raised" /\ stream_seen = Len(fnOut.yielded) /\ StreamFails

\* the steps of the event loop's task: the run and the generator it iterates
TaskNext ==
    \/ Unconfigured
    \/ Begin
    \/ CompletionFails
    \/ ModelRequestsTools
    \/ ModelAnswers
    \/ ExecTool
    \/ ConsumerNext
    \/ StreamTakes
    \/ StreamRunEnds
    \/ StreamRunFails

NextStreamRun == TaskNext \/ WorkerNext \/ LoopWakes

SpecStreamRun == InitStreamRun /\ [][NextStreamRun]_vars

\* what changes at every step of a run, of the worker and of the generator
Progress == <<pc, Len(tool_calls), stream_seen, fnOut>>

\* every completion request and tool call returns or raises, the token
\* source is iterated to its end by the worker thread, and the task of the
\* run is scheduled whenever it can take a step; that anything else wakes
\* the loop is not given
FairSpecStreamRun == SpecStreamRun /\ WF_Progress(TaskNext) /\ WF_Progress(WorkerNext)

\* a step of the loop: from AWAITING_MODEL to EXECUTING_TOOLS with the tool
\* calls of the completion, to the final completion or to the end of the
\* run; from EXECUTING_TOOLS back to AWAITING_MODEL, or to FAILED; and once
\* the loop is left no tool is executed and the loop is not entered again
LoopStep ==
    /\ pc = "awaiting_model" =>
          pc' \in {"awaiting_model", "executing_tools", "streaming", "done", "failed"}
    /\ pc # "executing_tools" /\ pc' = "executing_tools" =>
          pc = "awaiting_model" /\ tool_calls' # << >>
    /\ pc = "executing_tools" => pc' \in {"executing_tools", "awaiting_model", "failed"}
    /\ pc = "executing_tools" /\ pc' = "awaiting_model" => tool_calls' = << >>
    /\ pc \in {"streaming", "done", "failed", "raised"} =>
          /\ pc' \in {"streaming", "done", "failed", "raised"}
          /\ call_log' = call_log
          /\ executor_log' = executor_log

\* C26: the orchestrator goes AWAITING_MODEL -> EXECUTING_TOOLS ->
\* AWAITING_MODEL while completions carry tool calls and leaves the loop on
\* the first completion without tool calls, after which no tool is
\* executed; and when every completion request and tool call returns or
\* raises and the model stops requesting tools after finitely many rounds,
\* every run eventually reaches DONE or FAILED.
C26_LoopEndsAndRunTerminates == [][LoopStep]_vars /\ <>RunOver

\* C26 up to the streamed completion: the steps of the loop are as the
\* claim says, every run of run_agent reaches DONE or FAILED, and every run
\* of run_agent_stream reaches them or the streamed completion
C26_LoopEndsAndReachesFinal ==
    /\ [][LoopStep]_vars
    /\ <>(RunOver \/ pc = "streaming")
    /\ (mode = "sync" => <>RunOver)

-----------------------------------------------------------------------------
(* SpecIsolation: two runs of the orchestrator in one process, their steps  *)
(* interleaved at the awaits; a run may be cancelled at an await, and the   *)
(* worker thread of its streamed completion goes on.                        *)

Runs == {1, 2}

\* tool calls a run's model requests in all
MaxRunCalls == 2

\* the tool call ids of the run r and of the k-th call of it
CallId(r, k) == 10 * r + k

\* what each run is called with: its mode, chart context and model
RunArguments ==
    {f \in [Runs -> [mode : {"sync", "stream"},
                     ctx  : {TablesCtx(<<PricesTable>>),
                             TablesCtx(<<PricesTable, BackedVirtual, TradesTable>>)},
                     calls : {{QueryCall, RenderCall}, {VirtualCall, RenderCall}}]] :
        /\ f[1].ctx = TablesCtx(<<PricesTable>>) /\ f[2].ctx # f[1].ctx
        /\ QueryCall \in f[1].calls /\ VirtualCall \in f[2].calls}

\* the locals of a run: those of NewRun, the number of tool calls its model
\* requested, and the queue and worker thread of its streamed completion
NewIsolatedRun ==
    [pc |-> "start", messages |-> << >>, tool_calls |-> << >>, prior_queries |-> << >>,
     executed |-> << >>, issued |-> 0, queue |-> << >>, worker |-> "not_started"]

InitIsolation ==
    /\ env \in {e \in RunEnvs : e.mcp_available /\ ~e.ro_strict}
    /\ fnIn \in RunArguments
    /\ staged_cache = [k \in UNION {StagedKeys(fnIn[r].calls, fnIn[r].ctx) : r \in Runs} |->
                           query_stages(k[1], k[2], env)]
    /\ fnOut = [r \in Runs |-> NewIsolatedRun]
    /\ fnPc = "runs"
    /\ RunIdle

\* the mutant keeps the query records of all runs in one list of the module
prior_of_shared(r) == fnOut[1].prior_queries \o fnOut[2].prior_queries

\* prior_queries of the run r, a local of its coroutine
prior_of(r) == fnOut[r].prior_queries

RunBegins(r) ==
    /\ fnOut[r].pc = "start"
    /\ fnOut' = [fnOut EXCEPT ![r] = begin_run(fnIn[r].mode, @, fnIn[r].ctx)]
    /\ UNCHANGED <<env, fnIn, fnPc, runVars>>

\* the completion of the run r carries a tool call
RunRequestsTools(r) ==
    /\ fnOut[r].pc = "awaiting_model"
    /\ fnOut[r].issued < MaxRunCalls
    /\ \E c \in fnIn[r].calls :
        fnOut' = [fnOut EXCEPT ![r].pc = "executing_tools",
                               ![r].issued = @ + 1,
                               ![r].tool_calls = <<[id |-> CallId(r, fnOut[r].issued + 1),
                                                    name |-> c.name, arguments |-> c.arguments]>>]
    /\ UNCHANGED <<env, fnIn, fnPc, runVars>>

\* the run r handles its next tool call
RunExecTool(r) ==
    /\ fnOut[r].pc = "executing_tools"
    /\ \E tc \in {Head(fnOut[r].tool_calls)} : \E raw \in {loads_args(tc.arguments)} :
       \E out \in OutcomesOf(tc.name) :
       \E args \in {[raw EXCEPT !.chartContext =
                         ensure_chart_context(raw.chartContext, fnIn[r].ctx)]} :
       \E st \in {IF tc.name = "db_query"
                  THEN staged(args.sql, args.chartContext.tables, env)
                  ELSE [normalized_sql |-> "", sqln |-> ""]} :
       \E result \in {enrich(tc, args, call_mcp_tool(tc.name, args, env, out).result,
                              prior_of(r))} :
        fnOut' = [fnOut EXCEPT ![r] = tool_step(fnIn[r].mode, @, tc, raw, args, st, result)]
    /\ UNCHANGED <<env, fnIn, fnPc, runVars>>

\* the completion of the run r carries no tool call: run_agent returns,
\* run_agent_stream starts the worker thread of its streamed completion
RunAnswers(r) ==
    /\ fnOut[r].pc = "awaiting_model"
    /\ fnOut' = IF fnIn[r].mode = "sync" THEN [fnOut EXCEPT ![r].pc = "done"]
                ELSE [fnOut EXCEPT ![r].pc = "streaming", ![r].worker = "iterating"]
    /\ UNCHANGED <<env, fnIn, fnPc, runVars>>

\* the worker thread of the run r puts an event of its token source, or
\* done, into the queue of its closure
RunWorkerPuts(r) ==
    /\ fnOut[r].worker \in {"iterating", "finally"}
    /\ fnOut' = IF fnOut[r].worker = "iterating"
                THEN [fnOut EXCEPT ![r].queue = Append(@, [kind |-> "chunk", run |-> r]),
                                   ![r].worker = "finally"]
                ELSE [fnOut EXCEPT ![r].queue = Append(@, [kind |-> "done", run |-> r]),
                                   ![r].worker = "finished"]
    /\ UNCHANGED <<env, fnIn, fnPc, runVars>>

\* the generator of the run r takes an item of its queue
RunTakes(r) ==
    /\ fnOut[r].pc = "streaming"
    /\ fnOut[r].queue # << >>
    /\ fnOut' = [fnOut EXCEPT ![r].queue = Tail(@),
                              ![r].pc = IF Head(fnOut[r].queue).kind = "done" THEN "done" ELSE @]
    /\ UNCHANGED <<env, fnIn, fnPc, runVars>>

\* the caller cancels the task of the run r at an await
RunCancelled(r) ==
    /\ fnOut[r].pc \in {"awaiting_model", "executing_tools", "streaming"}
    /\ fnOut' = [fnOut EXCEPT ![r].pc = "cancelled"]
    /\ UNCHANGED <<env, fnIn, fnPc, runVars>>

NextIsolation ==
    \E r \in Runs :
        \/ RunBegins(r)
        \/ RunRequestsTools(r)
        \/ RunExecTool(r)
        \/ RunAnswers(r)
        \/ RunWorkerPuts(r)
        \/ RunTakes(r)
        \/ RunCancelled(r)

SpecIsolation == InitIsolation /\ [][NextIsolation]_vars

\* the tool call ids of the run r
IdsOf(r) == {CallId(r, k) : k \in 1..MaxRunCalls}

\* the statements the model of the run r writes
SqlsOf(r) == {loads_args(c.arguments).sql : c \in fnIn[r].calls}

\* the result holds nothing of another run: its rows are those of a call
\* of r, and so are the rows of each dataset attached to it
ResultOwnedBy(result, r) ==
    /\ result.kind = "rows" => result.rows.call \in IdsOf(r)
    /\ "datasets" \in DOMAIN result =>
          \A a \in DOMAIN result.datasets : result.datasets[a].call \in IdsOf(r)

\* C29: under every interleaving of two runs, the messages a run sends to
\* the model, its traces of executed tool calls, its query records and the
\* datasets attached to its plot_render results hold only the tool calls,
\* tool results and query records of that run, and the worker thread of a
\* streamed completion, also of a cancelled run, writes only to the queue
\* of its own run.
C29_RunsIsolated ==
    \A r \in Runs :
        /\ \A k \in 1..Len(fnOut[r].messages) :
              /\ fnOut[r].messages[k].role = "user" =>
                    fnOut[r].messages[k].content.chart_ctx = fnIn[r].ctx
              /\ fnOut[r].messages[k].role = "tool" =>
                    /\ fnOut[r].messages[k].tool_call_id \in IdsOf(r)
                    /\ ResultOwnedBy(fnOut[r].messages[k].content, r)
        /\ \A k \in 1..Len(fnOut[r].executed) :
              /\ fnOut[r].executed[k].id \in IdsOf(r)
              /\ fnOut[r].executed[k].arguments.sql \in SqlsOf(r)
              /\ ResultOwnedBy(fnOut[r].executed[k].result, r)
        /\ \A k \in 1..Len(fnOut[r].prior_queries) :
              /\ fnOut[r].prior_queries[k].sql \in SqlsOf(r)
              /\ ResultOwnedBy(fnOut[r].prior_queries[k].result, r)
        /\ \A k \in 1..Len(fnOut[r].queue) : fnOut[r].queue[k].run = r

\* both runs executed a query and then a plot_render whose datasets were
\* bound while the other run had a query record; one run was cancelled
\* during its streamed completion and its worker has finished
C29_Witness ==
    /\ \A r \in Runs :
          /\ Len(fnOut[r].executed) = 2
          /\ fnOut[r].executed[1].name = "db_query"
          /\ fnOut[r].executed[2].name = "plot_render"
    /\ "datasets" \in DOMAIN fnOut[1].executed[2].result
    /\ fnOut[1].executed[2].result.datasets["query_result"].call = CallId(1, 1)
    /\ fnOut[2].pc = "cancelled"
    /\ fnOut[2].worker = "finished"
    /\ Len(fnOut[2].queue) > 0

-----------------------------------------------------------------------------
(* SpecNorm: normalize_sql applied to every text of at most MaxNormFrags    *)
(* fragments, and then to its own result                                    *)

MaxNormFrags == 3

NormFrags ==
    {"SELECT ", "IF(a, ", "IF(b, c, d)", ", e)", "x", " LIMIT 5, 10", "YEAR(ts)", "CURDATE()",
     "#t#", "IFNULL(", "DATE_FORMAT(ts, '%Y-%m')"}

InitNorm ==
    /\ env \in [ro_strict : {FALSE}, allow_strict : {FALSE}, mcp_available : {TRUE}]
    /\ fnIn \in [sql : Texts(NormFrags, MaxNormFrags)]
    /\ fnOut = << >>
    /\ fnPc = "ready"
    /\ staged_cache = << >>
    /\ RunIdle

\* normalize_sql is called on the statement, and once more on what it returned
CallNormalize ==
    /\ fnPc = "ready"
    /\ fnOut' = Append(fnOut, normalize_sql(IF fnOut = << >> THEN fnIn.sql ELSE fnOut[Len(fnOut)]))
    /\ fnPc' = IF fnOut = << >> THEN "ready" ELSE "done"
    /\ UNCHANGED <<env, fnIn, runVars>>

SpecNorm == InitNorm /\ [][CallNormalize]_vars

\* C21: normalize is idempotent: for every statement s,
\* normalize(normalize(s)) equals normalize(s), nested IF(...) calls and
\* other constructs the first pass rewrites in part included.
C21_NormalizeIdempotent ==
    fnPc = "done" => fnOut[2] = fnOut[1]

\* C21 where it holds: a statement without an IF( call is left alone by
\* the second pass
C21_IdempotentWithoutIf ==
    fnPc = "done" /\ ~(\E i \in 1..Len(fnIn.sql) : WordBoundary(fnIn.sql, i) /\ MatchCI(fnIn.sql, "IF(", i))
        => fnOut[2] = fnOut[1]

=============================================================================
